---------------------------- MODULE Spec2Model ----------------------------
(***************************************************************************)
(* A model of xrust's arena-backed document tree (src/forest.rs): the      *)
(* Forest / Tree / Node structures, the mutation operations on them and    *)
(* the navigation iterators; and of the graph-backed tree                  *)
(* (src/xdmgraph.rs), in the section that begins with NodeType.            *)
(*                                                                         *)
(* Conventions.  Rust's Option<T> is a sequence of length 0 (None) or 1    *)
(* (Some(x)).  Vec and Arena indices are 0-based in the code; the model    *)
(* keeps the 0-based numbers and reads position i of a sequence with       *)
(* At(s, i).  The arena never frees a slot, so an Index is just the slot   *)
(* number.  A Node handle is the pair <<Index, TreeIndex>>, so n[1] is the *)
(* code's n.0 and n[2] is the code's n.1.                                  *)
(***************************************************************************)
EXTENDS Naturals, Integers, Sequences, FiniteSets, TLC

VARIABLES forest,   \* Forest.a : the sequence of Trees
          last,     \* the last API call: operation, receiver, argument, result
          iter,     \* the navigation iterator under observation (Option)
          graph     \* the graph-backed tree of src/xdmgraph.rs (XDMTree)

vars == <<forest, last, iter, graph>>

(***************************************************************************)
(* Bounds of the model.  Spec makes every call a caller can make, so its   *)
(* forests include the malformed ones and its bounds are the smaller.      *)
(***************************************************************************)
MaxTrees == 1      \* trees planted in the forest
MaxNodes == 2      \* Spec: nodes created by new_* over the whole forest
MaxEdges == 2      \* Spec: entries over all children sequences and attribute maps
NavNodes == 3      \* SpecNav: nodes created by new_* over the whole forest
NavEdges == 3      \* SpecNav: entries over all children sequences
MaxCalls == 5      \* next calls made on one iterator
MaxNones == 2      \* of them, calls that returned None
GrowTrees == 2     \* SpecGrow: trees planted in the forest
GrowNodes == 2     \* SpecGrow: nodes created by new_* over the whole forest
GrowEdges == 1     \* SpecGrow: entries over all children sequences and attribute maps
NewTrees == 2      \* SpecNew: trees planted in the forest
NewNodes == 2      \* SpecNew: nodes created by new_* over the whole forest
NewEdges == 1      \* SpecNew: entries over all children sequences and attribute maps
XmlNodes == 3      \* SpecXml: nodes created by new_* over the whole forest
XmlEdges == 2      \* SpecXml: entries over all children sequences and attribute maps
EscNodes == 3      \* SpecEsc: nodes created by new_* over the whole forest
EscEdges == 3      \* SpecEsc: entries over all children sequences and attribute maps
ErrTrees == 2      \* SpecErr: trees planted in the forest
ErrNodes == 3      \* SpecErr: nodes created by new_* over the whole forest
ErrEdges == 1      \* SpecErr: entries over all children sequences and attribute maps
CursorNodes == 3   \* SpecCursor: nodes created by new_element
CursorCalls == 4   \* SpecCursor: calls of next on the cursor
IngestSize == 3    \* SpecIngest: nodes and attributes of the document ingested
NsSize == 5        \* SpecNs: elements and declarations of the document ingested
GraphNodes == 5    \* SpecGraph: node slots of the graph, the document node's included
PairNodes == 4     \* SpecPair: nodes of the tree, the document node included

Values == {"x"}          \* values handed to new_text / new_attribute
\* SpecEsc: values handed to new_text / new_attribute, with characters that
\* have a meaning in XML
XmlValues == {"x", "<", "&lt;"}

(***************************************************************************)
(* Option, 0-based indexing.                                               *)
(***************************************************************************)
None == <<>>
Some(x) == <<x>>
IsSome(o) == o # <<>>
Unwrap(o) == o[1]

At(s, i) == s[i + 1]
InRange(s, i) == i \in 0 .. (Len(s) - 1)
SetAt(s, i, x) == [s EXCEPT ![i + 1] = x]
RemoveAt(s, i) == [k \in 1 .. (Len(s) - 1) |-> IF k <= i THEN s[k] ELSE s[k + 1]]

(***************************************************************************)
(* QualifiedName: namespace URI, prefix and local name.  Two names are the *)
(* same name (Eq, Hash: the key of an attribute map) when namespace URI    *)
(* and local name agree, whatever the prefix; a name prints as             *)
(* prefix:localname, or as the local name when it has no prefix.           *)
(***************************************************************************)
QualifiedName(nsuri, prefix, localname) ==
    [nsuri |-> nsuri, prefix |-> prefix, localname |-> localname]

get_prefix(qn) == qn.prefix

get_localname(qn) == qn.localname

QNameEq(q1, q2) == q1.nsuri = q2.nsuri /\ q1.localname = q2.localname

QNameToString(qn) ==
    IF qn.prefix = None THEN qn.localname
    ELSE Unwrap(qn.prefix) \o ":" \o qn.localname

\* qualified names handed to new_element / new_attribute
Names == {QualifiedName(None, None, "a"), QualifiedName(None, None, "b")}
\* SpecNav: names handed to new_element
NavNames == {QualifiedName(None, None, "a")}

(***************************************************************************)
(* NodeContent, NodeBuilder, Tree::new.                                    *)
(***************************************************************************)
EmptyMap == [q \in {} |-> None]

NodeContent(t, name, v) ==
    [t |-> t, name |-> name, v |-> v, parent |-> None,
     attributes |-> EmptyMap, children |-> <<>>]

Node(i, t) == <<i, t>>

\* a tree that does not record its own index: what C19_PlantTreeAppends
\* excludes
TreeNewUnindexed(i) == [i |-> 0, a |-> <<NodeContent("Document", None, None)>>, d |-> 0]

TreeNew(i) == [i |-> i, a |-> <<NodeContent("Document", None, None)>>, d |-> 0]

(***************************************************************************)
(* Forest::get_ref, Tree::get, Node::get, Node::node_type.                 *)
(***************************************************************************)
get_ref(F, i) == IF InRange(F, i) THEN Some(At(F, i)) ELSE None

TreeGet(d, i) == IF InRange(d.a, i) THEN Some(At(d.a, i)) ELSE None

get_doc_node(d) == Node(d.d, d.i)

node_type(F, n) ==
    IF get_ref(F, n[2]) = None THEN "Unknown"
    ELSE IF TreeGet(Unwrap(get_ref(F, n[2])), n[1]) = None THEN "Unknown"
    ELSE Unwrap(TreeGet(Unwrap(get_ref(F, n[2])), n[1])).t

\* the record behind a handle (Node::get; the caller has checked it exists)
Rec(F, n) == At(At(F, n[2]).a, n[1])

\* F with slot i of tree ti replaced by rec (the effect of a get_mut write)
Put(F, ti, i, rec) == SetAt(F, ti, [At(F, ti) EXCEPT !.a = SetAt(@, i, rec)])

\* every handle the API has handed out: one per arena slot of every tree
Handles(F) ==
    UNION { { Node(i, t) : i \in 0 .. (Len(At(F, t).a) - 1) } : t \in 0 .. (Len(F) - 1) }

Created(F) == Cardinality(Handles(F)) - Len(F)

(***************************************************************************)
(* The record of the last call: what was called and what the caller got    *)
(* back.  Error::new(kind, message) is kept for an Err; a panic (a failed  *)
(* unwrap) aborts the process.                                             *)
(***************************************************************************)
Ok(op, self, arg) == [op |-> op, res |-> "Ok", self |-> self, arg |-> arg, err |-> None]
Err(op, kind, message) ==
    [op |-> op, res |-> "Err", self |-> None, arg |-> None,
     err |-> Some([kind |-> kind, message |-> message])]
Panic(op) == [op |-> op, res |-> "Panic", self |-> None, arg |-> None, err |-> None]

\* StableGraph::new(): the graph behind an XDMTree before its document node
\* is made.  n is the node slots by NodeIndex, e the edges.
EmptyGraph == [n |-> <<>>, e |-> {}]

Init ==
    /\ forest = <<>>
    /\ last = Ok("Forest::new", None, None)
    /\ iter = None
    /\ graph = EmptyGraph

\* a panic aborts the process: nothing runs after it
Running == last.res # "Panic"

(***************************************************************************)
(* Forest::plant_tree                                                      *)
(***************************************************************************)
plant_tree ==
    /\ Running
    /\ forest' = Append(forest, TreeNew(Len(forest)))
    /\ last' = Ok("plant_tree", None, Some(Len(forest)))
    /\ UNCHANGED <<iter, graph>>

(***************************************************************************)
(* Tree::new_element, new_text, new_attribute, new_comment,                *)
(* new_processing_instruction: insert one record, return its handle.       *)
(***************************************************************************)
\* an insertion that puts the record in front of the others, moving them to
\* other slots: what C20_NewNodeIsFresh excludes
InsertInFront(F, ti, rec) == SetAt(F, ti, [At(F, ti) EXCEPT !.a = <<rec>> \o @])

Insert(F, ti, rec) == SetAt(F, ti, [At(F, ti) EXCEPT !.a = Append(@, rec)])

NewNode(op, ti, rec) ==
    /\ Running
    /\ InRange(forest, ti)
    /\ forest' = Insert(forest, ti, rec)
    /\ last' = Ok(op, Some(ti), Some(Node(Len(At(forest, ti).a), ti)))
    /\ UNCHANGED <<iter, graph>>

new_element(ti, name) ==
    NewNode("new_element", ti, NodeContent("Element", Some(name), None))

new_text(ti, c) ==
    NewNode("new_text", ti, NodeContent("Text", None, Some(c)))

new_attribute(ti, name, v) ==
    NewNode("new_attribute", ti, NodeContent("Attribute", Some(name), Some(v)))

new_comment(ti, v) ==
    NewNode("new_comment", ti, NodeContent("Comment", None, Some(v)))

new_processing_instruction(ti, name, v) ==
    NewNode("new_processing_instruction", ti,
            NodeContent("ProcessingInstruction", Some(name), Some(v)))


(***************************************************************************)
(* Tree::push_doc_node (called as f.get_ref_mut(ti).unwrap()               *)
(* .push_doc_node(n)): the unwrap of get_mut(n.0) panics when this tree    *)
(* has no slot n.0; no node type is checked.                               *)
(***************************************************************************)
PushDocParent(F, ti, n) ==
    Put(F, ti, n[1], [At(At(F, ti).a, n[1]) EXCEPT !.parent = Some(get_doc_node(At(F, ti)))])

PushDocChildren(F, ti, n) ==
    Put(F, ti, At(F, ti).d,
        [At(At(F, ti).a, At(F, ti).d) EXCEPT !.children = Append(@, n)])

push_doc_node(ti, n) ==
    /\ Running
    /\ InRange(forest, ti)
    /\ n \in Handles(forest)
    /\ UNCHANGED <<iter, graph>>
    /\ IF TreeGet(At(forest, ti), n[1]) = None
       THEN /\ last' = Panic("push_doc_node")
            /\ UNCHANGED forest
       ELSE /\ forest' = PushDocChildren(PushDocParent(forest, ti, n), ti, n)
            /\ last' = Ok("push_doc_node", Some(ti), Some(n))

(***************************************************************************)
(* Node::append_child.  The two type checks, then the lookup of self's     *)
(* tree; c's slot number is looked up in SELF's tree (no deep copy, no     *)
(* detach: both are TODO comments in the code), its parent is set, and c   *)
(* is pushed onto self's children.                                         *)
(***************************************************************************)
AppendChildErr(F, self, c) ==
    IF node_type(F, self) # "Element" THEN Some("must be an element")
    ELSE IF node_type(F, c) = "Attribute" THEN Some("cannot append an attribute as a child")
    ELSE IF get_ref(F, self[2]) = None THEN Some("unable to find tree")
    ELSE IF TreeGet(At(F, self[2]), c[1]) = None THEN Some("unable to find node")
    ELSE None

AppendChildParent(F, self, c) ==
    Put(F, self[2], c[1], [At(At(F, self[2]).a, c[1]) EXCEPT !.parent = Some(self)])

AppendChildPush(F, self, c) ==
    Put(F, self[2], self[1], [Rec(F, self) EXCEPT !.children = Append(@, c)])

\* an append_child that writes c's parent before it checks the node types:
\* what C32_ErrLeavesForest excludes
AppendChildEager(self, c) ==
    /\ Running
    /\ self \in Handles(forest)
    /\ c \in Handles(forest)
    /\ UNCHANGED <<iter, graph>>
    /\ IF AppendChildErr(forest, self, c) # None
       THEN /\ last' = Err("append_child", "Unknown", Unwrap(AppendChildErr(forest, self, c)))
            /\ forest' = IF TreeGet(At(forest, self[2]), c[1]) = None THEN forest
                          ELSE AppendChildParent(forest, self, c)
       ELSE /\ forest' = AppendChildPush(AppendChildParent(forest, self, c), self, c)
            /\ last' = Ok("append_child", Some(self), Some(c))

append_child(self, c) ==
    /\ Running
    /\ self \in Handles(forest)
    /\ c \in Handles(forest)
    /\ UNCHANGED <<iter, graph>>
    /\ IF AppendChildErr(forest, self, c) # None
       THEN /\ last' = Err("append_child", "Unknown", Unwrap(AppendChildErr(forest, self, c)))
            /\ UNCHANGED forest
       ELSE /\ forest' = AppendChildPush(AppendChildParent(forest, self, c), self, c)
            /\ last' = Ok("append_child", Some(self), Some(c))

(***************************************************************************)
(* Node::remove.  parent.unwrap() panics on a parentless node; the search  *)
(* of the parent's children compares slot numbers only (x.0 != self.0) and *)
(* its unwrap panics when no child matches; the first match is removed.    *)
(***************************************************************************)
Position(children, i) ==
    IF \E k \in 1 .. Len(children) : children[k][1] = i
    THEN Some((CHOOSE k \in 1 .. Len(children) :
                  /\ children[k][1] = i
                  /\ \A j \in 1 .. (k - 1) : children[j][1] # i) - 1)
    ELSE None

RemoveFromParent(F, self) ==
    LET d == At(F, self[2])
        pi == Unwrap(At(d.a, self[1]).parent)[1]
        cl == At(d.a, pi).children
    IN  Put(F, self[2], pi,
            [At(d.a, pi) EXCEPT !.children = RemoveAt(cl, Unwrap(Position(cl, self[1])))])

\* a removal that also empties the removed node's own children: the
\* recursive detach C16_RemoveKeepsSubtree excludes
RemoveClearSubtree(F, self) ==
    Put(F, self[2], self[1], [Rec(F, self) EXCEPT !.parent = None, !.children = <<>>])

\* a removal that frees the removed node's slot, leaving an empty record
\* behind the handle: the deallocation C21_RecordsPersist excludes
RemoveFreeSlot(F, self) ==
    Put(F, self[2], self[1], NodeContent("Unknown", None, None))

RemoveClearParent(F, self) ==
    Put(F, self[2], self[1], [Rec(F, self) EXCEPT !.parent = None])

RemovePanics(F, self) ==
    \/ Rec(F, self).parent = None
    \/ Position(At(At(F, self[2]).a, Unwrap(Rec(F, self).parent)[1]).children,
                self[1]) = None

remove(self) ==
    /\ Running
    /\ self \in Handles(forest)
    /\ UNCHANGED <<iter, graph>>
    /\ IF RemovePanics(forest, self)
       THEN /\ last' = Panic("remove")
            /\ UNCHANGED forest
       ELSE /\ forest' = RemoveClearParent(RemoveFromParent(forest, self), self)
            /\ last' = Ok("remove", Some(self), None)

(***************************************************************************)
(* Node::add_attribute.  a's slot number is looked up in SELF's tree and   *)
(* unwrapped; the parent is written before the name is read and unwrapped. *)
(***************************************************************************)
AddAttributeErr(F, self, a) ==
    IF node_type(F, self) # "Element" THEN Some("must be an element")
    ELSE IF node_type(F, a) # "Attribute" THEN Some("argument must be an attribute")
    ELSE IF get_ref(F, self[2]) = None THEN Some("unable to find tree")
    ELSE None

AddAttributeParent(F, self, a) ==
    Put(F, self[2], a[1], [At(At(F, self[2]).a, a[1]) EXCEPT !.parent = Some(self)])

\* HashMap::insert: the value under a key equal to k is replaced and the key
\* the map already holds is kept; without such a key the entry is added
MapInsert(m, k, x) ==
    IF \E q \in DOMAIN m : QNameEq(q, k)
    THEN [q \in DOMAIN m |-> IF QNameEq(q, k) THEN x ELSE m[q]]
    ELSE [q \in DOMAIN m \cup {k} |-> IF q = k THEN x ELSE m[q]]

AddAttributeInsert(F, self, a) ==
    Put(F, self[2], self[1],
        [Rec(F, self) EXCEPT
            !.attributes = MapInsert(@, Unwrap(At(At(F, self[2]).a, a[1]).name), a)])

add_attribute(self, a) ==
    /\ Running
    /\ self \in Handles(forest)
    /\ a \in Handles(forest)
    /\ UNCHANGED <<iter, graph>>
    /\ IF AddAttributeErr(forest, self, a) # None
       THEN /\ last' = Err("add_attribute", "Unknown", Unwrap(AddAttributeErr(forest, self, a)))
            /\ UNCHANGED forest
       ELSE IF TreeGet(At(forest, self[2]), a[1]) = None
       THEN /\ last' = Panic("add_attribute")
            /\ UNCHANGED forest
       ELSE IF At(At(forest, self[2]).a, a[1]).name = None
       THEN /\ last' = Panic("add_attribute")
            /\ forest' = AddAttributeParent(forest, self, a)
       ELSE /\ forest' = AddAttributeInsert(AddAttributeParent(forest, self, a), self, a)
            /\ last' = Ok("add_attribute", Some(self), Some(a))

(***************************************************************************)
(* Node::to_string and Node::to_xml.  A string Value prints as itself, a   *)
(* name as QNameToString gives it.  to_xml recurses over the children;     *)
(* depth counts the calls the stack still has room for, and a recursion    *)
(* that uses them up ends the process (StackOverflow).  The attributes are *)
(* written in the iteration order of the HashMap, which the code does not  *)
(* determine: KeyOrder stands for the order of one run.                    *)
(***************************************************************************)
to_string(F, n) ==
    IF get_ref(F, n[2]) = None THEN ""
    ELSE IF node_type(F, n) \in {"Text", "Attribute", "Comment"}
    THEN IF Rec(F, n).v = None THEN "" ELSE Unwrap(Rec(F, n).v)
    ELSE ""

StackOverflow == "!stack overflow!"

RECURSIVE KeyOrder(_)
KeyOrder(keys) ==
    IF keys = {} THEN <<>>
    ELSE LET k == CHOOSE x \in keys : TRUE IN <<k>> \o KeyOrder(keys \ {k})

RECURSIVE AttributesXml(_, _, _)
AttributesXml(F, m, ks) ==
    IF ks = <<>> THEN ""
    ELSE " " \o QNameToString(Head(ks)) \o "='" \o to_string(F, m[Head(ks)]) \o "'"
             \o AttributesXml(F, m, Tail(ks))

RECURSIVE ToXml(_, _, _)
\* a serialization that writes the last child first: the order
\* C22_ToXmlFormat excludes
RECURSIVE ChildrenXmlReversed(_, _, _)
ChildrenXmlReversed(F, cs, depth) ==
    IF cs = <<>> THEN ""
    ELSE ChildrenXmlReversed(F, Tail(cs), depth) \o ToXml(F, Head(cs), depth)

RECURSIVE ChildrenXml(_, _, _)
ChildrenXml(F, cs, depth) ==
    IF cs = <<>> THEN ""
    ELSE ToXml(F, Head(cs), depth) \o ChildrenXml(F, Tail(cs), depth)

ToXml(F, n, depth) ==
    IF depth = 0 THEN StackOverflow
    ELSE IF get_ref(F, n[2]) = None THEN ""
    ELSE IF TreeGet(At(F, n[2]), n[1]) = None THEN ""
    ELSE LET nc == Rec(F, n)
         IN  CASE nc.t = "Element" ->
                    "<" \o QNameToString(Unwrap(nc.name))
                        \o AttributesXml(F, nc.attributes, KeyOrder(DOMAIN nc.attributes))
                        \o ">" \o ChildrenXml(F, nc.children, depth - 1)
                        \o "</" \o QNameToString(Unwrap(nc.name)) \o ">"
               [] nc.t = "Text" -> Unwrap(nc.v)
               [] nc.t = "Comment" -> "<!--" \o Unwrap(nc.v) \o "-->"
               [] nc.t = "ProcessingInstruction" ->
                    "<?" \o QNameToString(Unwrap(nc.name)) \o " " \o Unwrap(nc.v) \o "?>"
               [] OTHER -> "-- not implemented --"

\* Node::to_xml on a stack with room for more calls than a tree without a
\* cycle can need
to_xml(F, n) == ToXml(F, n, Cardinality(Handles(F)) + 1)

(***************************************************************************)
(* Node::insert_before: not implemented, the call returns an error of kind *)
(* NotImplemented and touches nothing.                                     *)
(***************************************************************************)
insert_before(self, insert) ==
    /\ Running
    /\ self \in Handles(forest)
    /\ insert \in Handles(forest)
    /\ last' = Err("insert_before", "NotImplemented", "not yet implemented")
    /\ UNCHANGED <<forest, iter, graph>>

(***************************************************************************)
(* Node::get_attribute: the entry of self's attribute map under qn, None   *)
(* when the tree, the node or the entry does not exist.  The call record   *)
(* keeps, as arg, the Option<Node> returned.                               *)
(***************************************************************************)
GetAttribute(F, self, qn) ==
    IF get_ref(F, self[2]) = None THEN None
    ELSE IF TreeGet(At(F, self[2]), self[1]) = None THEN None
    ELSE IF \E q \in DOMAIN Rec(F, self).attributes : QNameEq(q, qn)
    THEN Some(Rec(F, self).attributes[
                  CHOOSE q \in DOMAIN Rec(F, self).attributes : QNameEq(q, qn)])
    ELSE None

get_attribute(self, qn) ==
    /\ Running
    /\ self \in Handles(forest)
    /\ last' = Ok("get_attribute", None, GetAttribute(forest, self, qn))
    /\ UNCHANGED <<forest, iter, graph>>

(***************************************************************************)
(* The parsed document grow_tree receives from parse: XMLDocument.content  *)
(* is a sequence of XMLNodes.  An XMLNode::Element carries its name, its   *)
(* attributes (XMLNode::Attribute, the xmlns declarations among them) and  *)
(* its content; the names are as written, prefix and local name, with no   *)
(* namespace URI.                                                          *)
(***************************************************************************)
XMLElement(m, a, c) == [kind |-> "Element", m |-> m, a |-> a, c |-> c]
XMLAttribute(qn, v) == [kind |-> "Attribute", qn |-> qn, v |-> v]
XMLText(v) == [kind |-> "Text", v |-> v]
XMLComment(v) == [kind |-> "Comment", v |-> v]
XMLPI(m, v) == [kind |-> "PI", m |-> m, v |-> v]

\* what parse(s) returns: Ok(XMLDocument) or the tokenizer's error
Parsed(content) == [res |-> "Ok", content |-> content]
ParseFailure == [res |-> "Err", kind |-> "ParseError", message |-> "unable to parse"]

(***************************************************************************)
(* parse, for documents of elements without attributes and of character    *)
(* data: "<name>" content "</name>" or "<name/>", the content made of      *)
(* elements and of text; in text the references &lt; &gt; and &amp; stand  *)
(* for the characters '<', '>' and '&', and a '&' that begins none of them *)
(* is an error, as is a '<' that begins no tag.  A name with a colon is    *)
(* split into prefix and local name; the namespace URI is left to          *)
(* make_node.  A position is an index into the string, from 1.             *)
(***************************************************************************)
Ch(s, i) == IF i >= 1 /\ i <= Len(s) THEN SubSeq(s, i, i) ELSE ""

StartsWith(s, i, lit) ==
    i + Len(lit) - 1 <= Len(s) /\ SubSeq(s, i, i + Len(lit) - 1) = lit

NameStop == {"", "<", ">", "/", "&", " ", "'", "="}

\* the position after the name that begins at i
RECURSIVE NameEnd(_, _)
NameEnd(s, i) == IF Ch(s, i) \in NameStop THEN i ELSE NameEnd(s, i + 1)

ParsedName(name) ==
    LET ks == { k \in 1 .. Len(name) : Ch(name, k) = ":" }
        k == CHOOSE j \in ks : \A l \in ks : j <= l
    IN  IF ks = {} THEN QualifiedName(None, None, name)
        ELSE QualifiedName(None, Some(SubSeq(name, 1, k - 1)), SubSeq(name, k + 1, Len(name)))

Scanned(pos, val) == [ok |-> TRUE, pos |-> pos, val |-> val]
ScanFailure == [ok |-> FALSE, pos |-> 0, val |-> <<>>]

\* character data from i up to the next '<' or the end, references replaced
RECURSIVE ParseCharData(_, _, _)
ParseCharData(s, i, acc) ==
    IF i > Len(s) \/ Ch(s, i) = "<" THEN Scanned(i, acc)
    ELSE IF Ch(s, i) # "&" THEN ParseCharData(s, i + 1, acc \o Ch(s, i))
    ELSE IF StartsWith(s, i, "&lt;") THEN ParseCharData(s, i + 4, acc \o "<")
    ELSE IF StartsWith(s, i, "&gt;") THEN ParseCharData(s, i + 4, acc \o ">")
    ELSE IF StartsWith(s, i, "&amp;") THEN ParseCharData(s, i + 5, acc \o "&")
    ELSE ScanFailure

RECURSIVE ParseElement(_, _)
RECURSIVE ParseContent(_, _, _)
\* the content of an element from i up to its end tag
ParseContent(s, i, acc) ==
    IF i > Len(s) \/ StartsWith(s, i, "</") THEN Scanned(i, acc)
    ELSE IF Ch(s, i) = "<"
    THEN LET e == ParseElement(s, i)
         IN  IF e.ok THEN ParseContent(s, e.pos, Append(acc, e.val)) ELSE ScanFailure
    ELSE LET t == ParseCharData(s, i, "")
         IN  IF t.ok THEN ParseContent(s, t.pos, Append(acc, XMLText(t.val))) ELSE ScanFailure

\* the element whose start tag begins at i
ParseElement(s, i) ==
    LET e == NameEnd(s, i + 1)
        name == SubSeq(s, i + 1, e - 1)
    IN  IF Ch(s, i) # "<" \/ e = i + 1 THEN ScanFailure
        ELSE IF StartsWith(s, e, "/>")
        THEN Scanned(e + 2, XMLElement(ParsedName(name), <<>>, <<>>))
        ELSE IF Ch(s, e) # ">" THEN ScanFailure
        ELSE LET c == ParseContent(s, e + 1, <<>>)
             IN  IF c.ok /\ StartsWith(s, c.pos, "</" \o name \o ">")
                 THEN Scanned(c.pos + Len(name) + 3, XMLElement(ParsedName(name), <<>>, c.val))
                 ELSE ScanFailure

\* parse(s): one element that takes the whole string
Parse(s) ==
    LET e == ParseElement(s, 1)
    IN  IF e.ok /\ e.pos = Len(s) + 1 THEN Parsed(<<e.val>>) ELSE ParseFailure

(***************************************************************************)
(* The calls make_node and grow_tree make on the forest they build, as     *)
(* functions of the forest: the handle the next new_* call returns, and    *)
(* the outcome of add_attribute, append_child and push_doc_node (the       *)
(* forest after the call and Ok, Err or Panic).                            *)
(***************************************************************************)
NewHandle(F, ti) == Node(Len(At(F, ti).a), ti)

Outcome(F, res, err) == [F |-> F, res |-> res, err |-> err]

AddAttributeOutcome(F, self, a) ==
    IF AddAttributeErr(F, self, a) # None
    THEN Outcome(F, "Err", Some([kind |-> "Unknown", message |-> Unwrap(AddAttributeErr(F, self, a))]))
    ELSE IF TreeGet(At(F, self[2]), a[1]) = None THEN Outcome(F, "Panic", None)
    ELSE IF At(At(F, self[2]).a, a[1]).name = None
    THEN Outcome(AddAttributeParent(F, self, a), "Panic", None)
    ELSE Outcome(AddAttributeInsert(AddAttributeParent(F, self, a), self, a), "Ok", None)

AppendChildOutcome(F, self, c) ==
    IF AppendChildErr(F, self, c) # None
    THEN Outcome(F, "Err", Some([kind |-> "Unknown", message |-> Unwrap(AppendChildErr(F, self, c))]))
    ELSE Outcome(AppendChildPush(AppendChildParent(F, self, c), self, c), "Ok", None)

PushDocNodeOutcome(F, ti, n) ==
    IF TreeGet(At(F, ti), n[1]) = None THEN Outcome(F, "Panic", None)
    ELSE Outcome(PushDocChildren(PushDocParent(F, ti, n), ti, n), "Ok", None)

(***************************************************************************)
(* make_node.  ns is the HashMap from prefix to namespace URI that         *)
(* grow_tree creates and hands down by &mut: every call works on the one   *)
(* map, so the result carries the map as the call left it.  A result is    *)
(* the forest, the map, Ok with the node made, or Err with the error, or   *)
(* Panic (the expect on add_attribute).                                    *)
(***************************************************************************)
Made(F, ns, n) == [F |-> F, ns |-> ns, res |-> "Ok", node |-> Some(n), err |-> None]
MadeErr(F, ns, kind, message) ==
    [F |-> F, ns |-> ns, res |-> "Err", node |-> None,
     err |-> Some([kind |-> kind, message |-> message])]
MadePanic(F, ns) == [F |-> F, ns |-> ns, res |-> "Panic", node |-> None, err |-> None]

EmptyNs == [p \in {} |-> ""]

\* HashMap<String, String>::insert
NsInsert(ns, k, v) == [p \in DOMAIN ns \cup {k} |-> IF p = k THEN v ELSE ns[p]]

\* the filter of the first pass over the attributes: prefix xmlns
IsDeclaration(b) == b.kind = "Attribute" /\ get_prefix(b.qn) = Some("xmlns")

\* the first pass: every xmlns:p='uri' attribute, in order, is entered in ns
RECURSIVE Declare(_, _)
Declare(ns, a) ==
    IF a = <<>> THEN ns
    ELSE Declare(IF IsDeclaration(Head(a))
                 THEN NsInsert(ns, get_localname(Head(a).qn), Head(a).v)
                 ELSE ns,
                 Tail(a))

\* the name given to an attribute: a prefixed one gets the URI of its prefix
\* in ns, the empty string when ns has none; an unprefixed one keeps the
\* name the parser gave it
AttributeName(ns, qn) ==
    IF get_prefix(qn) = None THEN qn
    ELSE QualifiedName(Some(IF Unwrap(get_prefix(qn)) \in DOMAIN ns
                            THEN ns[Unwrap(get_prefix(qn))] ELSE ""),
                       get_prefix(qn), get_localname(qn))

\* the second pass: every attribute that is not a declaration becomes an
\* attribute node, added to the element new; a failed add_attribute panics
RECURSIVE MakeAttributes(_, _, _, _, _)
MakeAttributes(a, F, ti, ns, new) ==
    IF a = <<>> THEN Outcome(F, "Ok", None)
    ELSE IF Head(a).kind # "Attribute" \/ IsDeclaration(Head(a))
    THEN MakeAttributes(Tail(a), F, ti, ns, new)
    ELSE LET c == NewHandle(F, ti)
             F1 == Insert(F, ti, NodeContent("Attribute",
                                             Some(AttributeName(ns, Head(a).qn)),
                                             Some(Head(a).v)))
             added == AddAttributeOutcome(F1, new, c)
         IN  IF added.res # "Ok" THEN Outcome(added.F, "Panic", None)
             ELSE MakeAttributes(Tail(a), added.F, ti, ns, new)

RECURSIVE MakeNode(_, _, _, _)

\* an element content loop that gives every child the map as it was when
\* the loop began, so that a declaration made below a child ends with that
\* child (scoped declarations): what C30_DeclarationsStayInForce excludes
RECURSIVE MakeContentScoped(_, _, _, _, _)
MakeContentScoped(c, F, ti, ns, new) ==
    IF c = <<>> THEN Made(F, ns, new)
    ELSE LET g == MakeNode(Head(c), F, ti, ns)
         IN  IF g.res # "Ok" THEN g
             ELSE LET appended == AppendChildOutcome(g.F, new, Unwrap(g.node))
                  IN  IF appended.res # "Ok"
                      THEN [F |-> appended.F, ns |-> ns, res |-> appended.res,
                            node |-> None, err |-> appended.err]
                      ELSE MakeContentScoped(Tail(c), appended.F, ti, ns, new)

\* the loop over the element content: make_node(h)?, then
\* new.append_child(g)?; the first error ends the loop and is returned
RECURSIVE MakeContent(_, _, _, _, _)
MakeContent(c, F, ti, ns, new) ==
    IF c = <<>> THEN Made(F, ns, new)
    ELSE LET g == MakeNode(Head(c), F, ti, ns)
         IN  IF g.res # "Ok" THEN g
             ELSE LET appended == AppendChildOutcome(g.F, new, Unwrap(g.node))
                  IN  IF appended.res # "Ok"
                      THEN [F |-> appended.F, ns |-> g.ns, res |-> appended.res,
                            node |-> None, err |-> appended.err]
                      ELSE MakeContent(Tail(c), appended.F, ti, g.ns, new)

MakeElement(n, F, ti, ns) ==
    LET declared == Declare(ns, n.a)
    IN  IF get_prefix(n.m) # None /\ Unwrap(get_prefix(n.m)) \notin DOMAIN declared
        THEN MadeErr(F, declared, "Unknown", "namespace URI not found for prefix")
        ELSE LET newns == IF get_prefix(n.m) = None THEN None
                          ELSE Some(declared[Unwrap(get_prefix(n.m))])
                 new == NewHandle(F, ti)
                 F1 == Insert(F, ti,
                              NodeContent("Element",
                                          Some(QualifiedName(newns, get_prefix(n.m),
                                                             get_localname(n.m))),
                                          None))
                 attrs == MakeAttributes(n.a, F1, ti, declared, new)
             IN  IF attrs.res # "Ok" THEN MadePanic(attrs.F, declared)
                 ELSE MakeContent(n.c, attrs.F, ti, declared, new)

MakeNode(n, F, ti, ns) ==
    CASE n.kind = "Element" -> MakeElement(n, F, ti, ns)
      [] n.kind = "Attribute" -> MadeErr(F, ns, "NotImplemented", "not implemented")
      [] n.kind = "Text" ->
            Made(Insert(F, ti, NodeContent("Text", None, Some(n.v))), ns, NewHandle(F, ti))
      [] n.kind = "Comment" ->
            Made(Insert(F, ti, NodeContent("Comment", None, Some(n.v))), ns, NewHandle(F, ti))
      [] n.kind = "PI" ->
            Made(Insert(F, ti, NodeContent("ProcessingInstruction",
                                           Some(QualifiedName(None, None, n.m)), Some(n.v))),
                 ns, NewHandle(F, ti))

(***************************************************************************)
(* Forest::grow_tree.  The error of parse is returned as it is; a document *)
(* without content is an error; else a tree is planted and every node of   *)
(* the content is made and pushed under the document node, the first error *)
(* ending the call.  The result: the forest, Ok with the tree index, or    *)
(* Err, or Panic.                                                          *)
(***************************************************************************)
Grown(F, res, ti, err) == [F |-> F, res |-> res, ti |-> ti, err |-> err]

\* the loop over d.content
RECURSIVE GrowContent(_, _, _, _)
GrowContent(c, F, ti, ns) ==
    IF c = <<>> THEN Grown(F, "Ok", Some(ti), None)
    ELSE LET e == MakeNode(Head(c), F, ti, ns)
         IN  IF e.res # "Ok" THEN Grown(e.F, e.res, None, e.err)
             ELSE LET pushed == PushDocNodeOutcome(e.F, ti, Unwrap(e.node))
                  IN  IF pushed.res # "Ok" THEN Grown(pushed.F, pushed.res, None, pushed.err)
                      ELSE GrowContent(Tail(c), pushed.F, ti, e.ns)

GrowTree(F, d) ==
    IF d.res = "Err"
    THEN Grown(F, "Err", None, Some([kind |-> d.kind, message |-> d.message]))
    ELSE IF Len(d.content) = 0
    THEN Grown(F, "Err", None, Some([kind |-> "Unknown", message |-> "unable to parse XML"]))
    ELSE GrowContent(d.content, Append(F, TreeNew(Len(F))), Len(F), EmptyNs)

\* grow_tree(s), d being what parse(s) returns; the call record keeps, for
\* an Ok, the parsed document as self and the tree index returned as arg
grow_tree(d) ==
    /\ Running
    /\ forest' = GrowTree(forest, d).F
    /\ last' = CASE GrowTree(forest, d).res = "Ok" ->
                      Ok("grow_tree", Some(d), GrowTree(forest, d).ti)
                 [] GrowTree(forest, d).res = "Err" ->
                      Err("grow_tree", Unwrap(GrowTree(forest, d).err).kind,
                          Unwrap(GrowTree(forest, d).err).message)
                 [] OTHER -> Panic("grow_tree")
    /\ UNCHANGED <<iter, graph>>

(***************************************************************************)
(* The navigation iterators.  iter holds the iterator's own fields (as in  *)
(* the structs Ancestors, Children, Siblings, Descendants) and, for the    *)
(* properties, the node it was made from ("of") and everything next has    *)
(* returned so far ("out", a sequence of Option<Node>).                    *)
(***************************************************************************)
Yield(it, r) == [it EXCEPT !.out = Append(@, r)]

\* Ancestors::new, Node::ancestor_iter
AncestorsNew(n) ==
    [kind |-> "Ancestors", t |-> n[2], cur |-> n[1], of |-> n, out |-> <<>>]

\* a walk that does not stop below the document node: the behaviour
\* C9_AncestorsNearestFirst excludes
AncestorsNextToRoot(F, it) ==
    IF get_ref(F, it.t) = None THEN Yield(it, None)
    ELSE IF TreeGet(At(F, it.t), it.cur) = None THEN Yield(it, None)
    ELSE LET c == At(At(F, it.t).a, it.cur)
         IN  IF c.parent = None THEN Yield(it, None)
             ELSE Yield([it EXCEPT !.cur = Unwrap(c.parent)[1]], c.parent)

\* Ancestors::next
AncestorsNext(F, it) ==
    IF get_ref(F, it.t) = None THEN Yield(it, None)
    ELSE IF TreeGet(At(F, it.t), it.cur) = None THEN Yield(it, None)
    ELSE LET c == At(At(F, it.t).a, it.cur)
         IN  IF c.parent = None THEN Yield(it, None)
             ELSE IF node_type(F, Unwrap(c.parent)) = "Document" THEN Yield(it, None)
             ELSE Yield([it EXCEPT !.cur = Unwrap(c.parent)[1]], c.parent)

\* Node::parent
parent(F, n) == LET it == AncestorsNext(F, AncestorsNew(n)) IN At(it.out, 0)

\* Children::new, Node::child_iter
ChildrenNew(n) ==
    [kind |-> "Children", t |-> n[2], parent |-> n[1], cur |-> 0, of |-> n, out |-> <<>>]

\* a step that returns the child at cur and leaves cur where it is: the
\* behaviour C8_ChildrenInOrder excludes
ChildrenNextInPlace(F, it) ==
    IF get_ref(F, it.t) = None THEN Yield(it, None)
    ELSE IF TreeGet(At(F, it.t), it.parent) = None THEN Yield(it, None)
    ELSE LET n == At(At(F, it.t).a, it.parent)
         IN  IF Len(n.children) > it.cur
             THEN Yield(it, Some(At(n.children, it.cur)))
             ELSE Yield(it, None)

\* a cursor that is finished once it has returned None: the behaviour
\* C35_CursorReadsCurrentChildren excludes
ChildrenNextFused(F, it) ==
    IF it.out # <<>> /\ At(it.out, Len(it.out) - 1) = None THEN Yield(it, None)
    ELSE IF get_ref(F, it.t) = None THEN Yield(it, None)
    ELSE IF TreeGet(At(F, it.t), it.parent) = None THEN Yield(it, None)
    ELSE LET n == At(At(F, it.t).a, it.parent)
         IN  IF Len(n.children) > it.cur
             THEN Yield([it EXCEPT !.cur = it.cur + 1], Some(At(n.children, it.cur)))
             ELSE Yield(it, None)

\* Children::next
ChildrenNext(F, it) ==
    IF get_ref(F, it.t) = None THEN Yield(it, None)
    ELSE IF TreeGet(At(F, it.t), it.parent) = None THEN Yield(it, None)
    ELSE LET n == At(At(F, it.t).a, it.parent)
         IN  IF Len(n.children) > it.cur
             THEN Yield([it EXCEPT !.cur = it.cur + 1], Some(At(n.children, it.cur)))
             ELSE Yield(it, None)

\* Siblings::new panics on a failed unwrap: no parent, or the node is not
\* found (by slot number) among its parent's children
SiblingsNewPanics(F, n) ==
    \/ Rec(F, n).parent = None
    \/ Position(At(At(F, n[2]).a, Unwrap(Rec(F, n).parent)[1]).children, n[1]) = None

\* Siblings::new, Node::next_iter (dir = 1), Node::prev_iter (dir = -1)
SiblingsNew(F, n, dir) ==
    [kind |-> "Siblings", t |-> n[2], parent |-> Unwrap(Rec(F, n).parent)[1],
     cur |-> Unwrap(Position(At(At(F, n[2]).a, Unwrap(Rec(F, n).parent)[1]).children, n[1])),
     dir |-> dir, of |-> n, out |-> <<>>]

\* Siblings::next
SiblingsNext(F, it) ==
    IF get_ref(F, it.t) = None THEN Yield(it, None)
    ELSE IF TreeGet(At(F, it.t), it.parent) = None THEN Yield(it, None)
    ELSE LET n == At(At(F, it.t).a, it.parent)
         IN  IF it.dir > 0 /\ Len(n.children) > it.cur + 1
             THEN Yield([it EXCEPT !.cur = it.cur + 1], Some(At(n.children, it.cur + 1)))
             ELSE IF it.dir < 0 /\ it.cur > 0
             THEN Yield([it EXCEPT !.cur = it.cur - 1], Some(At(n.children, it.cur - 1)))
             ELSE Yield(it, None)

\* Descendants::new makes the same unwraps as Siblings::new
DescendantsNewPanics(F, n) == SiblingsNewPanics(F, n)

\* Descendants::new, Node::descend_iter: the stack starts with the frame
\* (parent, position of the start node among the parent's children)
DescendantsNew(F, n) ==
    [kind |-> "Descendants", t |-> n[2], start |-> n[1], cur |-> n[1],
     stack |-> << <<Unwrap(Rec(F, n).parent)[1],
                    Unwrap(Position(At(At(F, n[2]).a, Unwrap(Rec(F, n).parent)[1]).children,
                                    n[1]))>> >>,
     of |-> n, out |-> <<>>]

\* the loop of Descendants::next ("ancestor next sibling"): pop a frame; with
\* no frame left the result is None; if the frame now on top has a child
\* after its position, step to it; else stop with None at the start node's
\* frame, and pop again at any other frame
RECURSIVE DescendantsPop(_, _, _)
DescendantsPop(F, it, stack) ==
    LET popped == SubSeq(stack, 1, Len(stack) - 1)
    IN  IF popped = <<>> THEN Yield([it EXCEPT !.stack = popped], None)
        ELSE LET j == popped[Len(popped)][1]
                 t == popped[Len(popped)][2]
                 qnc == At(At(F, it.t).a, j)
             IN  IF Len(qnc.children) > t + 1
                 THEN Yield([it EXCEPT !.stack = [popped EXCEPT ![Len(popped)] = <<j, t + 1>>],
                                       !.cur = At(qnc.children, t + 1)[1]],
                            Some(Node(At(qnc.children, t + 1)[1], it.t)))
                 ELSE IF j = it.start
                 THEN Yield([it EXCEPT !.stack = popped], None)
                 ELSE DescendantsPop(F, it, popped)

\* Descendants::next panics in its "have a next sibling" branch: there s is
\* greater than children.len(), so children.get(s + 1) is None and is unwrapped
DescendantsNextPanics(F, it) ==
    /\ it.stack # <<>>
    /\ ChildrenNext(F, ChildrenNew(Node(it.cur, it.t))).out = <<None>>
    /\ Len(At(At(F, it.t).a, it.stack[Len(it.stack)][1]).children) < it.stack[Len(it.stack)][2]

\* Descendants::next
DescendantsNext(F, it) ==
    IF it.stack = <<>> THEN Yield(it, None)
    ELSE LET first == At(ChildrenNext(F, ChildrenNew(Node(it.cur, it.t))).out, 0)
         IN  IF first # None
             THEN Yield([it EXCEPT !.stack = Append(@, <<it.cur, 0>>),
                                   !.cur = Unwrap(first)[1]],
                        first)
             ELSE DescendantsPop(F, it, it.stack)

(***************************************************************************)
(* The iterator calls as actions.                                          *)
(***************************************************************************)
ancestor_iter(n) ==
    /\ Running /\ n \in Handles(forest)
    /\ iter' = Some(AncestorsNew(n))
    /\ last' = Ok("ancestor_iter", Some(n), None)
    /\ UNCHANGED <<forest, graph>>

child_iter(n) ==
    /\ Running /\ n \in Handles(forest)
    /\ iter' = Some(ChildrenNew(n))
    /\ last' = Ok("child_iter", Some(n), None)
    /\ UNCHANGED <<forest, graph>>

SiblingIter(op, n, dir) ==
    /\ Running /\ n \in Handles(forest)
    /\ UNCHANGED <<forest, graph>>
    /\ IF SiblingsNewPanics(forest, n)
       THEN last' = Panic(op) /\ UNCHANGED iter
       ELSE last' = Ok(op, Some(n), None) /\ iter' = Some(SiblingsNew(forest, n, dir))

next_iter(n) == SiblingIter("next_iter", n, 1)

prev_iter(n) == SiblingIter("prev_iter", n, -1)

descend_iter(n) ==
    /\ Running /\ n \in Handles(forest)
    /\ UNCHANGED <<forest, graph>>
    /\ IF DescendantsNewPanics(forest, n)
       THEN last' = Panic("descend_iter") /\ UNCHANGED iter
       ELSE last' = Ok("descend_iter", Some(n), None) /\ iter' = Some(DescendantsNew(forest, n))

\* a next call that returned: the caller holds the advanced iterator it2 and
\* the result, the last entry of it2.out
Returned(it2) ==
    /\ iter' = Some(it2)
    /\ last' = Ok("next", None, At(it2.out, Len(it2.out) - 1))
    /\ UNCHANGED <<forest, graph>>

ancestors_next ==
    /\ Running /\ iter # None /\ Unwrap(iter).kind = "Ancestors"
    /\ Returned(AncestorsNext(forest, Unwrap(iter)))

children_next ==
    /\ Running /\ iter # None /\ Unwrap(iter).kind = "Children"
    /\ Returned(ChildrenNext(forest, Unwrap(iter)))

siblings_next ==
    /\ Running /\ iter # None /\ Unwrap(iter).kind = "Siblings"
    /\ Returned(SiblingsNext(forest, Unwrap(iter)))

descendants_next ==
    /\ Running /\ iter # None /\ Unwrap(iter).kind = "Descendants"
    /\ UNCHANGED <<forest, graph>>
    /\ IF DescendantsNextPanics(forest, Unwrap(iter))
       THEN last' = Panic("next") /\ UNCHANGED iter
       ELSE /\ iter' = Some(DescendantsNext(forest, Unwrap(iter)))
            /\ last' = Ok("next", None, At(Unwrap(iter').out, Len(Unwrap(iter).out)))

(***************************************************************************)
(* The specifications.  The bounds of the model are guards here, not part  *)
(* of the operations.                                                      *)
(***************************************************************************)
RECURSIVE SumEdges(_, _)
SumEdges(F, S) ==
    IF S = {} THEN 0
    ELSE LET n == CHOOSE x \in S : TRUE
         IN  Len(Rec(F, n).children) + Cardinality(DOMAIN Rec(F, n).attributes)
               + SumEdges(F, S \ {n})

Edges(F) == SumEdges(F, Handles(F))

Trees(F) == 0 .. (Len(F) - 1)

Kids(F, n) == { Rec(F, n).children[k] : k \in 1 .. Len(Rec(F, n).children) }

RECURSIVE Closure(_, _, _)
Closure(F, S, k) ==
    IF k = 0 THEN S
    ELSE Closure(F, S \cup UNION { Kids(F, x) : x \in S \cap Handles(F) }, k - 1)

\* n and everything below it along the children sequences
Under(F, n) == Closure(F, {n}, Cardinality(Handles(F)))

\* n is in no children sequence and has no parent
Detached(F, n) ==
    /\ Rec(F, n).parent = None
    /\ \A p \in Handles(F) : n \notin Kids(F, p)

\* the caller holds no iterator: the forest is only changed between iterations
Idle == iter = None

Plant == Idle /\ Len(forest) < MaxTrees /\ plant_tree

Create ==
    /\ Idle
    /\ Created(forest) < MaxNodes
    /\ \E ti \in Trees(forest) :
        \/ \E q \in Names : new_element(ti, q)
        \/ \E c \in Values : new_text(ti, c)
        \/ \E q \in Names, c \in Values : new_attribute(ti, q, c)

Detach == Idle /\ \E n \in Handles(forest) : remove(n)

Navigate ==
    /\ Idle
    /\ \E n \in Handles(forest) :
           \/ ancestor_iter(n)
           \/ child_iter(n)
           \/ next_iter(n)
           \/ prev_iter(n)
           \/ descend_iter(n)

Nones(out) == Cardinality({ k \in 1 .. Len(out) : out[k] = None })

Step ==
    /\ iter # None
    /\ Len(Unwrap(iter).out) < MaxCalls
    /\ Nones(Unwrap(iter).out) < MaxNones
    /\ \/ ancestors_next
       \/ children_next
       \/ siblings_next
       \/ descendants_next

(***************************************************************************)
(* Spec: the calls the contract of the operations covers.  Any node but    *)
(* the document node is appended to any node, attached already or not (a   *)
(* re-append is a move), but never below itself; any node is added as an   *)
(* attribute of any node; a parentless node is pushed under the document   *)
(* node of its tree; remove is called on any node.  A call the operation   *)
(* refuses is made too, and returns its error.  One iterator is made and   *)
(* next is called on it while the forest is left alone.                    *)
(***************************************************************************)
Attach ==
    /\ Idle
    /\ Edges(forest) < MaxEdges
    /\ \E c \in Handles(forest) :
        /\ node_type(forest, c) # "Document"
        /\ \/ /\ node_type(forest, c) # "Attribute"
              /\ Rec(forest, c).parent = None
              /\ push_doc_node(c[2], c)
           \/ \E p \in Handles(forest) :
                /\ p \notin Under(forest, c)
                /\ append_child(p, c)
           \/ \E e \in Handles(forest) : add_attribute(e, c)

\* a detached node is inserted before an attached one
InsertBefore ==
    /\ Idle
    /\ \E n \in Handles(forest), s \in Handles(forest) :
        /\ Rec(forest, n).parent # None
        /\ node_type(forest, s) \notin {"Document", "Attribute"}
        /\ Detached(forest, s)
        /\ insert_before(n, s)

Next == Plant \/ Create \/ Attach \/ InsertBefore \/ Detach \/ Navigate \/ Step

Spec == Init /\ [][Next]_vars

(***************************************************************************)
(* SpecNav: navigation over well-formed trees.  The forest is built the    *)
(* way the tests and make_node build it: a node is attached (pushed under  *)
(* the document node, or appended to an element) only while it is          *)
(* detached, and never below itself; remove is called on any node.         *)
(***************************************************************************)
NavCreate ==
    /\ Idle
    /\ Created(forest) < NavNodes
    /\ \E ti \in Trees(forest) :
        \/ \E q \in NavNames : new_element(ti, q)
        \/ \E c \in Values : new_text(ti, c)

NavAttach ==
    /\ Idle
    /\ Edges(forest) < NavEdges
    /\ \E c \in Handles(forest) :
        /\ node_type(forest, c) # "Document"
        /\ Detached(forest, c)
        /\ \/ push_doc_node(c[2], c)
           \/ \E p \in Handles(forest) :
                /\ p[2] = c[2]
                /\ p \notin Under(forest, c)
                /\ append_child(p, c)

NextNav == Plant \/ NavCreate \/ NavAttach \/ Detach \/ Navigate \/ Step

SpecNav == Init /\ [][NextNav]_vars

(***************************************************************************)
(* SpecTree: the trees of SpecNav, built and taken apart, without any      *)
(* iterator.                                                               *)
(***************************************************************************)
NextTree == Plant \/ NavCreate \/ NavAttach \/ Detach

SpecTree == Init /\ [][NextTree]_vars

(***************************************************************************)
(* SpecAny: every call a caller can make with the handles it holds, the    *)
(* ones outside the contract included (a node appended below itself, the   *)
(* document node or an attribute pushed as a child).                       *)
(***************************************************************************)
AttachAny ==
    /\ Idle
    /\ Edges(forest) < MaxEdges
    /\ \/ \E ti \in Trees(forest), n \in Handles(forest) : push_doc_node(ti, n)
       \/ \E p \in Handles(forest), c \in Handles(forest) : append_child(p, c)
       \/ \E e \in Handles(forest), a \in Handles(forest) : add_attribute(e, a)

NextAny == Plant \/ Create \/ AttachAny \/ Detach \/ Navigate \/ Step

SpecAny == Init /\ [][NextAny]_vars

(***************************************************************************)
(* SpecGrow: building a forest of several trees.  Every construction and   *)
(* mutation call is made with any handles the caller holds, across trees   *)
(* too; no iterator is made.                                               *)
(***************************************************************************)
GrowPlant == Idle /\ Len(forest) < GrowTrees /\ plant_tree

GrowCreate ==
    /\ Idle
    /\ Created(forest) < GrowNodes
    /\ \E ti \in Trees(forest) :
        \/ \E q \in NavNames : new_element(ti, q)
        \/ \E c \in Values : new_text(ti, c)
        \/ \E q \in Names, c \in Values : new_attribute(ti, q, c)
        \/ \E c \in Values : new_comment(ti, c)
        \/ \E q \in NavNames, c \in Values : new_processing_instruction(ti, q, c)

GrowAttach ==
    /\ Idle
    /\ Edges(forest) < GrowEdges
    /\ \/ \E ti \in Trees(forest), n \in Handles(forest) : push_doc_node(ti, n)
       \/ \E p \in Handles(forest), c \in Handles(forest) : append_child(p, c)
       \/ \E e \in Handles(forest), a \in Handles(forest) : add_attribute(e, a)

GrowInsert == Idle /\ \E n \in Handles(forest), s \in Handles(forest) : insert_before(n, s)

GrowQuery == Idle /\ \E e \in Handles(forest), q \in Names : get_attribute(e, q)

NextGrow == GrowPlant \/ GrowCreate \/ GrowAttach \/ GrowInsert \/ GrowQuery \/ Detach

SpecGrow == Init /\ [][NextGrow]_vars

(***************************************************************************)
(* SpecNew: planting trees and creating nodes of the five kinds, with the  *)
(* new nodes attached in their own tree (pushed under the document node,   *)
(* appended, added as an attribute) and removed again.                     *)
(***************************************************************************)
NewPlant == Idle /\ Len(forest) < NewTrees /\ plant_tree

NewCreate ==
    /\ Idle
    /\ Created(forest) < NewNodes
    /\ \E ti \in Trees(forest) :
        \/ \E q \in NavNames : new_element(ti, q)
        \/ \E c \in Values : new_text(ti, c)
        \/ \E q \in NavNames, c \in Values : new_attribute(ti, q, c)
        \/ \E c \in Values : new_comment(ti, c)
        \/ \E q \in NavNames, c \in Values : new_processing_instruction(ti, q, c)

NewAttach ==
    /\ Idle
    /\ Edges(forest) < NewEdges
    /\ \E c \in Handles(forest) :
        /\ node_type(forest, c) # "Document"
        /\ Detached(forest, c)
        /\ \/ node_type(forest, c) # "Attribute" /\ push_doc_node(c[2], c)
           \/ \E p \in Handles(forest) :
                /\ p[2] = c[2]
                /\ p \notin Under(forest, c)
                /\ \/ append_child(p, c)
                   \/ add_attribute(p, c)

NextNew == NewPlant \/ NewCreate \/ NewAttach \/ Detach

SpecNew == Init /\ [][NextNew]_vars

(***************************************************************************)
(* SpecErr: append_child and add_attribute called with any two handles of  *)
(* a forest of up to ErrTrees trees, the refused calls included: a parent  *)
(* that is no element, an attribute as child, a node that is no attribute  *)
(* as attribute, a handle of another tree whose slot the parent's tree     *)
(* does not have.                                                          *)
(***************************************************************************)
ErrPlant == Idle /\ Len(forest) < ErrTrees /\ plant_tree

ErrCreate ==
    /\ Idle
    /\ Created(forest) < ErrNodes
    /\ \E ti \in Trees(forest) :
        \/ \E q \in NavNames : new_element(ti, q)
        \/ \E q \in NavNames, c \in Values : new_attribute(ti, q, c)

ErrAttach ==
    /\ Idle
    /\ Edges(forest) < ErrEdges
    /\ \E p \in Handles(forest), c \in Handles(forest) :
        \/ append_child(p, c)
        \/ add_attribute(p, c)

NextErr == ErrPlant \/ ErrCreate \/ ErrAttach

SpecErr == Init /\ [][NextErr]_vars

(***************************************************************************)
(* SpecCursor: a tree of elements is built, child_iter is called on one of *)
(* its nodes, and from then on calls of next on that cursor are mixed with *)
(* remove of a child of that node and append_child of a detached node to   *)
(* it.                                                                     *)
(***************************************************************************)
CursorPlant == Idle /\ forest = <<>> /\ plant_tree

CursorCreate ==
    /\ Idle
    /\ Created(forest) < CursorNodes
    /\ \E ti \in Trees(forest), q \in NavNames : new_element(ti, q)

CursorAttach ==
    /\ Idle
    /\ \E c \in Handles(forest) :
        /\ node_type(forest, c) # "Document"
        /\ Detached(forest, c)
        /\ \/ push_doc_node(c[2], c)
           \/ \E p \in Handles(forest) :
                /\ p \notin Under(forest, c)
                /\ append_child(p, c)

CursorOpen == Idle /\ \E n \in Handles(forest) : child_iter(n)

CursorNext ==
    /\ iter # None
    /\ Len(Unwrap(iter).out) < CursorCalls
    /\ children_next

CursorRemove ==
    /\ iter # None
    /\ \E n \in Kids(forest, Unwrap(iter).of) : remove(n)

CursorAppend ==
    /\ iter # None
    /\ \E c \in Handles(forest) :
        /\ node_type(forest, c) # "Document"
        /\ Detached(forest, c)
        /\ Unwrap(iter).of \notin Under(forest, c)
        /\ append_child(Unwrap(iter).of, c)

NextCursor ==
    \/ CursorPlant \/ CursorCreate \/ CursorAttach \/ CursorOpen
    \/ CursorNext \/ CursorRemove \/ CursorAppend

SpecCursor == Init /\ [][NextCursor]_vars

(***************************************************************************)
(* SpecXml: the trees that are serialized.  The first tree of a forest is  *)
(* planted and built of nodes of the five kinds, each attached while it is *)
(* detached: pushed under the document node, appended to an element, or    *)
(* added as an attribute.  (to_xml reads the tree of its node only.)       *)
(***************************************************************************)
XmlPlant == Idle /\ forest = <<>> /\ plant_tree

XmlCreate ==
    /\ Idle
    /\ Created(forest) < XmlNodes
    /\ \E ti \in Trees(forest) :
        \/ \E q \in NavNames : new_element(ti, q)
        \/ \E c \in Values : new_text(ti, c)
        \/ \E q \in Names, c \in Values : new_attribute(ti, q, c)
        \/ \E c \in Values : new_comment(ti, c)
        \/ \E q \in NavNames, c \in Values : new_processing_instruction(ti, q, c)

XmlAttach ==
    /\ Idle
    /\ Edges(forest) < XmlEdges
    /\ \E c \in Handles(forest) :
        /\ node_type(forest, c) # "Document"
        /\ Detached(forest, c)
        /\ \/ node_type(forest, c) # "Attribute" /\ push_doc_node(c[2], c)
           \/ \E p \in Handles(forest) :
                /\ p[2] = c[2]
                /\ p \notin Under(forest, c)
                /\ \/ append_child(p, c)
                   \/ add_attribute(p, c)

NextXml == XmlPlant \/ XmlCreate \/ XmlAttach

SpecXml == Init /\ [][NextXml]_vars

(***************************************************************************)
(* SpecEsc: the trees of SpecXml made of elements, text nodes and          *)
(* attributes, with values that hold the characters '<' and '&'.           *)
(***************************************************************************)
EscPlant == Idle /\ forest = <<>> /\ plant_tree

EscCreate ==
    /\ Idle
    /\ Created(forest) < EscNodes
    /\ \E ti \in Trees(forest) :
        \/ \E q \in NavNames : new_element(ti, q)
        \/ \E c \in XmlValues : new_text(ti, c)
        \/ \E q \in NavNames, c \in XmlValues : new_attribute(ti, q, c)

EscAttach ==
    /\ Idle
    /\ Edges(forest) < EscEdges
    /\ \E c \in Handles(forest) :
        /\ node_type(forest, c) # "Document"
        /\ Detached(forest, c)
        /\ \/ node_type(forest, c) # "Attribute" /\ push_doc_node(c[2], c)
           \/ \E p \in Handles(forest) :
                /\ p[2] = c[2]
                /\ p \notin Under(forest, c)
                /\ \/ append_child(p, c)
                   \/ add_attribute(p, c)

NextEsc == EscPlant \/ EscCreate \/ EscAttach

SpecEsc == Init /\ [][NextEsc]_vars

(***************************************************************************)
(* The documents ingested.  The size of an XMLNode is the number of nodes  *)
(* and attributes it is made of.  NodesOfSize gives the XMLNodes of one    *)
(* size with element names from Ms, attributes from As and the nodes of Ls *)
(* as leaves; ContentOfSize the sequences of such nodes of one total size. *)
(***************************************************************************)
RECURSIVE NodesOfSize(_, _, _, _)
RECURSIVE ContentOfSize(_, _, _, _)
NodesOfSize(n, Ms, As, Ls) ==
    (IF n = 1 THEN Ls ELSE {})
        \cup UNION { { XMLElement(m, a, c) :
                          m \in Ms, a \in [1 .. k -> As],
                          c \in ContentOfSize(n - 1 - k, Ms, As, Ls) } :
                     k \in 0 .. (n - 1) }

ContentOfSize(n, Ms, As, Ls) ==
    IF n = 0 THEN {<<>>}
    ELSE UNION { { <<t>> \o rest :
                      t \in NodesOfSize(k, Ms, As, Ls),
                      rest \in ContentOfSize(n - k, Ms, As, Ls) } :
                 k \in 1 .. n }

\* SpecIngest: element names, with and without prefix; a declaration of the
\* prefix p, attributes with a prefix (p, q) and without; the leaves
IngestNames == {QualifiedName(None, None, "a"), QualifiedName(None, Some("p"), "a")}
IngestAttributes ==
    {XMLAttribute(QualifiedName(None, Some("xmlns"), "p"), "u"),
     XMLAttribute(QualifiedName(None, Some("p"), "b"), "x"),
     XMLAttribute(QualifiedName(None, Some("q"), "b"), "x"),
     XMLAttribute(QualifiedName(None, None, "b"), "x")}
IngestLeaves == {XMLText("x"), XMLComment("x"), XMLPI("a", "x")}

\* what parse returns: an error, a document without content, or a document
\* with content of a size up to IngestSize
IngestInputs ==
    {ParseFailure}
        \cup { Parsed(c) : c \in UNION { ContentOfSize(k, IngestNames, IngestAttributes,
                                                      IngestLeaves) : k \in 0 .. IngestSize } }

\* SpecNs: documents of one root element, made of elements with and without
\* the prefix p and of declarations of p with two URIs
NsAttributes ==
    {XMLAttribute(QualifiedName(None, Some("xmlns"), "p"), "u"),
     XMLAttribute(QualifiedName(None, Some("xmlns"), "p"), "w")}

NsInputs ==
    { Parsed(<<t>>) : t \in UNION { NodesOfSize(k, IngestNames, NsAttributes, {}) :
                                      k \in 1 .. NsSize } }

(***************************************************************************)
(* SpecIngest, SpecNs: one document is ingested, into a new forest or into *)
(* one that holds a planted tree.                                          *)
(***************************************************************************)
IngestPlant == Idle /\ forest = <<>> /\ plant_tree

Ingest ==
    /\ Idle
    /\ forest = <<>> \/ last.op = "plant_tree"
    /\ \E d \in IngestInputs : grow_tree(d)

NextIngest == IngestPlant \/ Ingest

SpecIngest == Init /\ [][NextIngest]_vars

NsIngest ==
    /\ Idle
    /\ forest = <<>> \/ last.op = "plant_tree"
    /\ \E d \in NsInputs : grow_tree(d)

NextNs == IngestPlant \/ NsIngest

SpecNs == Init /\ [][NextNs]_vars

(***************************************************************************)
(* Properties.                                                             *)
(***************************************************************************)
Children(F, n) == Rec(F, n).children

\* the number of places of the sequence s that hold x
Count(s, x) == Cardinality({ k \in 1 .. Len(s) : s[k] = x })

\* the number of attribute map entries of p whose value is x
CountAttr(F, p, x) ==
    Cardinality({ q \in DOMAIN Rec(F, p).attributes : Rec(F, p).attributes[q] = x })

AppendChildReturnedOk == last.op = "append_child" /\ last.res = "Ok"

\* C1: after append_child(p, c) has returned Ok for an Element p and a
\* non-Attribute c of the same tree, c.parent = Some(p), c is the last of
\* p's children and c occurs exactly once in p's children.
C1_AppendChildAttachesOnce ==
    (AppendChildReturnedOk /\ Unwrap(last.self)[2] = Unwrap(last.arg)[2]) =>
        LET p == Unwrap(last.self)
            c == Unwrap(last.arg)
        IN  /\ Rec(forest, c).parent = Some(p)
            /\ Children(forest, p)[Len(Children(forest, p))] = c
            /\ Count(Children(forest, p), c) = 1

\* occurrences of n over all children sequences and attribute maps of its tree
RECURSIVE SumOccurrences(_, _, _)
SumOccurrences(F, n, S) ==
    IF S = {} THEN 0
    ELSE LET p == CHOOSE x \in S : TRUE
         IN  Count(Children(F, p), n) + CountAttr(F, p, n) + SumOccurrences(F, n, S \ {p})

Occurrences(F, n) == SumOccurrences(F, n, { p \in Handles(F) : p[2] = n[2] })

\* C2: in every reachable state each node occurs at most once in total over
\* all children sequences and attribute maps of its tree (so append_child of
\* an attached node first takes it out of its old parent's children).
C2_AttachmentIsExclusive ==
    \A n \in Handles(forest) : Occurrences(forest, n) <= 1

\* n is held by p: in p's children, or a value of p's attribute map
Holds(F, p, n) == Count(Children(F, p), n) > 0 \/ CountAttr(F, p, n) > 0

\* C3: in every reachable state, for every non-document node n and every
\* node p, n.parent = Some(p) exactly when n is in p's children or is a value
\* of p's attribute map.
C3_ParentIffAttached ==
    \A n \in Handles(forest) : \A p \in Handles(forest) :
        node_type(forest, n) # "Document" =>
            ((Rec(forest, n).parent = Some(p)) <=> Holds(forest, p, n))

\* s without every occurrence of x, the rest in order
Without(s, x) == SelectSeq(s, LAMBDA y : y # x)

\* C4: for every node n whose parent is Some(p), a remove(n) that returns Ok
\* leaves n.parent = None, n nowhere in p's children, and p's other children
\* in the order they had.
C4_RemoveDetaches ==
    [][(last'.op = "remove" /\ last'.res = "Ok") =>
        LET n == Unwrap(last'.self)
            p == Unwrap(Rec(forest, n).parent)
        IN  /\ Rec(forest', n).parent = None
            /\ Count(Children(forest', p), n) = 0
            /\ Children(forest', p) = Without(Children(forest, p), n)]_vars

\* C5: remove(n) on a node whose parent is None returns Err to the caller
\* (the process is not aborted) and leaves the forest unchanged.
C5_RemoveParentlessIsErr ==
    [][\A n \in Handles(forest) :
        (Rec(forest, n).parent = None /\ remove(n)) =>
            (last'.res = "Err" /\ forest' = forest)]_vars

(***************************************************************************)
(* Properties of the iterators.  Each is about the iterator under          *)
(* observation, whose forest has not changed since it was made.            *)
(***************************************************************************)
Observed(kind) == iter # None /\ Unwrap(iter).kind = kind

\* what an exhausted iterator owes: the nodes of seq, each as Some, in order,
\* and None from then on; out is what next has returned so far
Yields(out, seq) ==
    \A k \in 1 .. Len(out) :
        out[k] = IF k <= Len(seq) THEN Some(seq[k]) ELSE None

\* the proper descendants of the nodes of kids, in document order: each node,
\* then its descendants, then the following siblings
RECURSIVE PreOrder(_, _, _)
PreOrder(F, kids, depth) ==
    IF kids = <<>> \/ depth = 0 THEN <<>>
    ELSE <<Head(kids)>> \o PreOrder(F, Children(F, Head(kids)), depth - 1)
                       \o PreOrder(F, Tail(kids), depth)

ProperDescendants(F, s) == PreOrder(F, Children(F, s), Cardinality(Handles(F)))

\* C6: the next calls on descend_iter(s), s attached and not the document
\* node, return exactly the proper descendants of s in pre-order document
\* order, each once, and then None.
C6_DescendantsPreOrder ==
    Observed("Descendants") =>
        Yields(Unwrap(iter).out, ProperDescendants(forest, Unwrap(iter).of))

\* C7: no next call on descend_iter(s) returns a node that is not a proper
\* descendant of s, also after the iterator has returned None.
C7_DescendantsStayBelowStart ==
    Observed("Descendants") =>
        \A k \in 1 .. Len(Unwrap(iter).out) :
            Unwrap(iter).out[k] # None =>
                Unwrap(Unwrap(iter).out[k]) \in Under(forest, Unwrap(iter).of) \ {Unwrap(iter).of}

\* C8: the next calls on child_iter(p) return p's children in sequence
\* order, each place once, then None on every further call; for a node
\* without children the first call returns None.
C8_ChildrenInOrder ==
    Observed("Children") =>
        Yields(Unwrap(iter).out, Children(forest, Unwrap(iter).of))

C8_Witness ==
    /\ Observed("Children")
    /\ Len(Children(forest, Unwrap(iter).of)) = 2
    /\ Children(forest, Unwrap(iter).of)[1] # Children(forest, Unwrap(iter).of)[2]
    /\ Len(Unwrap(iter).out) = 4

\* the parent element of n: its parent field, unless that is None or the
\* document node
ParentElement(F, n) ==
    IF Rec(F, n).parent = None THEN None
    ELSE IF Rec(F, Unwrap(Rec(F, n).parent)).t = "Document" THEN None
    ELSE Rec(F, n).parent

\* C9: the next calls on ancestor_iter(n) return n's parent, then that
\* node's parent, and so on; None as soon as the next parent is the document
\* node or absent, and None from then on; the document node is never
\* returned; parent(n) is the parent element of n, None for a child of the
\* document node.
C9_AncestorsNearestFirst ==
    Observed("Ancestors") =>
        LET n == Unwrap(iter).of
            out == Unwrap(iter).out
        IN  /\ \A k \in 1 .. Len(out) :
                  /\ out[k] = IF k = 1 THEN ParentElement(forest, n)
                              ELSE IF out[k - 1] = None THEN None
                              ELSE ParentElement(forest, Unwrap(out[k - 1]))
                  /\ out[k] # None => node_type(forest, Unwrap(out[k])) # "Document"
            /\ parent(forest, n) = ParentElement(forest, n)

C9_Witness ==
    /\ Observed("Ancestors")
    /\ Len(Unwrap(iter).out) = 4
    /\ Unwrap(iter).out[1] # None
    /\ Unwrap(iter).out[2] # None
    /\ Unwrap(iter).out[1] # Unwrap(iter).out[2]
    /\ Unwrap(iter).out[3] = None
    /\ parent(forest, Unwrap(iter).of) # None
    /\ Rec(forest, Unwrap(Unwrap(iter).out[2])).parent # None
    /\ parent(forest, Unwrap(Unwrap(iter).out[2])) = None

\* the places i + 1, ..., k - 1 of s (forward) or i - 1, ..., 0 (backward),
\* i counted from 0
After(s, i) == SubSeq(s, i + 2, Len(s))
Before(s, i) == [k \in 1 .. i |-> s[i + 1 - k]]

\* C10: for a node n at position i among its parent's k children,
\* next_iter(n) returns the children at positions i + 1, ..., k - 1 and then
\* None, prev_iter(n) those at positions i - 1, ..., 0 and then None; n itself
\* is never returned.
C10_SiblingsFromPosition ==
    Observed("Siblings") =>
        LET n == Unwrap(iter).of
            out == Unwrap(iter).out
            s == Children(forest, Unwrap(Rec(forest, n).parent))
        IN  /\ \A i \in 0 .. (Len(s) - 1) :
                  At(s, i) = n =>
                      Yields(out, IF Unwrap(iter).dir > 0 THEN After(s, i) ELSE Before(s, i))
            /\ \A k \in 1 .. Len(out) : out[k] # Some(n)

(***************************************************************************)
(* Properties of building the forest.                                      *)
(***************************************************************************)
ReturnedOk(op) == last'.op = op /\ last'.res = "Ok"

\* C11: get_attribute(e, q) is the attribute most recently added to e under
\* the qualified name q, None when there was none: a successful
\* add_attribute(e, a) makes it Some(a) for a's name, and no other call and
\* no other pair (e, q) changes it.  (The attribute map holds one entry per
\* name by construction.)
C11_GetAttributeIsLastAdded ==
    [][\A e \in Handles(forest'), q \in Names :
          GetAttribute(forest', e, q) =
              IF /\ ReturnedOk("add_attribute")
                 /\ Unwrap(last'.self) = e
                 /\ Rec(forest', Unwrap(last'.arg)).name = Some(q)
              THEN last'.arg
              ELSE IF e \in Handles(forest) THEN GetAttribute(forest, e, q)
              ELSE None]_vars

\* C12: when append_child(p, c) succeeds with c of another tree than p, a
\* copy of c's subtree has been created in p's tree and attached: p's tree
\* has new records, every handle in p's children carries p's tree index, and
\* c's own tree is unchanged.
C12_AppendAcrossTreesCopies ==
    [][(ReturnedOk("append_child") /\ Unwrap(last'.self)[2] # Unwrap(last'.arg)[2]) =>
          LET p == Unwrap(last'.self)
              c == Unwrap(last'.arg)
          IN  /\ Len(At(forest', p[2]).a) > Len(At(forest, p[2]).a)
              /\ \A k \in 1 .. Len(Children(forest', p)) : Children(forest', p)[k][2] = p[2]
              /\ At(forest', c[2]) = At(forest, c[2])]_vars

\* the messages of the errors returned for a receiver or an argument of the
\* wrong node type
TypeMessages ==
    {"must be an element", "cannot append an attribute as a child",
     "argument must be an attribute"}

\* C13: the error append_child returns for a receiver that is not an Element
\* or a child that is an Attribute, and the error add_attribute returns for a
\* receiver that is not an Element or an argument that is not an Attribute,
\* has the kind TypeError.
C13_WrongTypeIsTypeError ==
    (/\ last.op \in {"append_child", "add_attribute"}
     /\ last.res = "Err"
     /\ Unwrap(last.err).message \in TypeMessages)
        => Unwrap(last.err).kind = "TypeError"

\* n is attached at position i (from 0) of its parent's children
AttachedAt(F, n, i) ==
    /\ Rec(F, n).parent # None
    /\ InRange(Children(F, Unwrap(Rec(F, n).parent)), i)
    /\ At(Children(F, Unwrap(Rec(F, n).parent)), i) = n

\* C14: for a node n attached at position i of its parent's children,
\* insert_before(n, s) returns Ok, and afterwards s is at position i, n at
\* position i + 1, s.parent is n's parent and the other children keep their
\* relative order.
C14_InsertBeforeInserts ==
    [][\A n \in Handles(forest), s \in Handles(forest), i \in 0 .. MaxEdges :
          (AttachedAt(forest, n, i) /\ s # n /\ insert_before(n, s)) =>
              LET p == Unwrap(Rec(forest, n).parent)
              IN  /\ last'.res = "Ok"
                  /\ AttachedAt(forest', s, i)
                  /\ AttachedAt(forest', n, i + 1)
                  /\ Rec(forest', s).parent = Some(p)
                  /\ Without(Children(forest', p), s) = Without(Children(forest, p), s)]_vars

\* the slots of tree ti that hold a record of type Document
DocumentSlots(F, ti) ==
    { i \in 0 .. (Len(At(F, ti).a) - 1) : At(At(F, ti).a, i).t = "Document" }

\* C15: in every reachable state each tree holds exactly one node of type
\* Document, it is the node get_doc_node returns, and its parent is None.
C15_OneParentlessDocumentNode ==
    \A ti \in Trees(forest) :
        /\ DocumentSlots(forest, ti) = {get_doc_node(At(forest, ti))[1]}
        /\ get_doc_node(At(forest, ti))[2] = ti
        /\ Rec(forest, get_doc_node(At(forest, ti))).parent = None

\* rec1 and rec2 are the same but for the field named
SameButParent(rec1, rec2) == [rec1 EXCEPT !.parent = None] = [rec2 EXCEPT !.parent = None]
SameButChildren(rec1, rec2) == [rec1 EXCEPT !.children = <<>>] = [rec2 EXCEPT !.children = <<>>]

\* C16: a remove(n) that returns Ok changes only n's parent field and the
\* children of n's former parent: every other record, so every descendant of
\* n with its parent field and its children, is as before, to_xml(n) is the
\* same, and n still has its whole subtree below it.
C16_RemoveKeepsSubtree ==
    [][ReturnedOk("remove") =>
          LET n == Unwrap(last'.self)
              p == Unwrap(Rec(forest, n).parent)
          IN  /\ Handles(forest') = Handles(forest)
              /\ \A h \in Handles(forest) :
                    IF h = n THEN SameButParent(Rec(forest', h), Rec(forest, h))
                    ELSE IF h = p THEN SameButChildren(Rec(forest', h), Rec(forest, h))
                    ELSE Rec(forest', h) = Rec(forest, h)
              /\ Under(forest', n) = Under(forest, n)
              /\ to_xml(forest', n) = to_xml(forest, n)]_vars

C16_Witness ==
    /\ last.op = "remove" /\ last.res = "Ok"
    /\ Rec(forest, Unwrap(last.self)).parent = None
    /\ Children(forest, Unwrap(last.self)) # <<>>
    /\ to_xml(forest, Unwrap(last.self)) = "<a>x</a>"

\* C17: push_doc_node(n) on a tree returns Ok, sets n.parent to the
\* document node of that tree and makes n the last child of the document
\* node, after the children it had, in their order.
C17_PushDocNodeAppends ==
    [][\A ti \in Trees(forest), n \in Handles(forest) :
          push_doc_node(ti, n) =>
              /\ last'.res = "Ok"
              /\ Rec(forest', n).parent = Some(get_doc_node(At(forest, ti)))
              /\ Children(forest', get_doc_node(At(forest, ti)))
                    = Append(Children(forest, get_doc_node(At(forest, ti))), n)]_vars

\* C18: in every reachable state no children sequence holds a node of type
\* Attribute, and every attribute map holds nodes of type Attribute only.
C18_AttributesOnlyInMaps ==
    \A p \in Handles(forest) :
        /\ \A k \in 1 .. Len(Children(forest, p)) :
              node_type(forest, Children(forest, p)[k]) # "Attribute"
        /\ \A q \in DOMAIN Rec(forest, p).attributes :
              node_type(forest, Rec(forest, p).attributes[q]) = "Attribute"

\* C19: the n-th call of plant_tree (from 0) returns n and never fails; it
\* adds a tree that holds a document node without children and nothing
\* else, and leaves the trees planted before as they were.  No other call
\* changes the number of trees, so at any time get_ref(h) is Some exactly for
\* the handles returned so far and None for every larger h.
C19_PlantTreeAppends ==
    [][/\ last'.op = "plant_tree" =>
            /\ last'.res = "Ok"
            /\ last'.arg = Some(Len(forest))
            /\ Len(forest') = Len(forest) + 1
            /\ \A t \in 0 .. (Len(forest) - 1) : At(forest', t) = At(forest, t)
            /\ LET new == At(forest', Len(forest))
               IN  /\ Len(new.a) = 1
                   /\ get_doc_node(new) = Node(0, Len(forest))
                   /\ At(new.a, 0) = [t |-> "Document", name |-> None, v |-> None,
                                      parent |-> None, attributes |-> EmptyMap,
                                      children |-> <<>>]
       /\ last'.op # "plant_tree" => Len(forest') = Len(forest)
       /\ \A h \in 0 .. (Len(forest') + 1) :
            (get_ref(forest', h) # None) <=> (h < Len(forest'))]_vars

C19_Witness ==
    /\ last.op = "plant_tree"
    /\ last.arg = Some(1)
    /\ Len(forest) = 2
    /\ Len(At(forest, 0).a) > 1
    /\ Edges(forest) > 0

\* the node type each constructor is asked for
TypeOf(op) ==
    CASE op = "new_element" -> "Element"
      [] op = "new_text" -> "Text"
      [] op = "new_attribute" -> "Attribute"
      [] op = "new_comment" -> "Comment"
      [] op = "new_processing_instruction" -> "ProcessingInstruction"

Constructors ==
    {"new_element", "new_text", "new_attribute", "new_comment", "new_processing_instruction"}

\* C20: each of new_element, new_text, new_attribute, new_comment and
\* new_processing_instruction returns Ok with a handle of the tree it was
\* called on that no earlier call returned; the record behind it has the
\* node type asked for, parent None, no children and no attributes; every
\* record the forest had is unchanged.
C20_NewNodeIsFresh ==
    [][last'.op \in Constructors =>
          /\ last'.res = "Ok"
          /\ LET h == Unwrap(last'.arg)
             IN  /\ h[2] = Unwrap(last'.self)
                 /\ h \notin Handles(forest)
                 /\ Handles(forest') = Handles(forest) \cup {h}
                 /\ Rec(forest', h).t = TypeOf(last'.op)
                 /\ Rec(forest', h).parent = None
                 /\ Rec(forest', h).children = <<>>
                 /\ DOMAIN Rec(forest', h).attributes = {}
          /\ \A g \in Handles(forest) : Rec(forest', g) = Rec(forest, g)]_vars

C20_Witness ==
    /\ last.op = "new_processing_instruction"
    /\ last.res = "Ok"
    /\ Created(forest) = 2
    /\ Edges(forest) = 1

(***************************************************************************)
(* Properties of the records, of serialization and of ingestion.           *)
(***************************************************************************)
\* C21: no operation removes a record from a tree: over every call, every
\* handle handed out before it still resolves after it, to a record with the
\* same node type, name and value (so a handle returned by new_* resolves in
\* every later state, after remove too, to what it was created with).
C21_RecordsPersist ==
    [][\A h \in Handles(forest) :
          /\ h \in Handles(forest')
          /\ node_type(forest', h) = node_type(forest, h)
          /\ Rec(forest', h).name = Rec(forest, h).name
          /\ Rec(forest', h).v = Rec(forest, h).v]_vars

C21_Witness ==
    /\ last.op = "remove" /\ last.res = "Ok"
    /\ Unwrap(last.self) \in Handles(forest)
    /\ Rec(forest, Unwrap(last.self)).t = "Text"
    /\ Rec(forest, Unwrap(last.self)).v = Some("x")
    /\ Rec(forest, Unwrap(last.self)).parent = None

\* the values of the text nodes of seq, concatenated in the order of seq
RECURSIVE TextOf(_, _)
TextOf(F, seq) ==
    IF seq = <<>> THEN ""
    ELSE (IF Rec(F, Head(seq)).t = "Text" THEN Unwrap(Rec(F, Head(seq)).v) ELSE "")
            \o TextOf(F, Tail(seq))

\* C24: to_string(n) is, for an element, the values of all its descendant
\* text nodes concatenated in document order; for a text, attribute or
\* comment node its own value; the empty string for every other node.
C24_ToStringIsStringValue ==
    \A n \in Handles(forest) :
        to_string(forest, n) =
            CASE node_type(forest, n) = "Element" ->
                    TextOf(forest, ProperDescendants(forest, n))
              [] node_type(forest, n) \in {"Text", "Attribute", "Comment"} ->
                    Unwrap(Rec(forest, n).v)
              [] OTHER -> ""

\* C27: next_iter, prev_iter and descend_iter do not abort the process:
\* called on a node without parent (the document node, a detached node) or
\* on an attribute node they return an iterator whose next returns None.
C27_IterConstructorsNeverAbort ==
    [][\A n \in Handles(forest) :
          (/\ Rec(forest, n).parent = None \/ node_type(forest, n) = "Attribute"
           /\ next_iter(n) \/ prev_iter(n) \/ descend_iter(n))
          => /\ last'.res = "Ok"
             /\ iter' # None
             /\ Unwrap(iter').kind = "Siblings" =>
                    SiblingsNext(forest', Unwrap(iter')).out = <<None>>
             /\ Unwrap(iter').kind = "Descendants" =>
                    DescendantsNext(forest', Unwrap(iter')).out = <<None>>]_vars

\* the orders in which the members of the set S can be written
Orders(S) ==
    { ks \in [1 .. Cardinality(S) -> S] :
        \A i \in 1 .. Cardinality(S), j \in 1 .. Cardinality(S) : i # j => ks[i] # ks[j] }

\* to_xml of the nodes of cs, one after the other
RECURSIVE XmlOfAll(_, _)
XmlOfAll(F, cs) ==
    IF cs = <<>> THEN "" ELSE to_xml(F, Head(cs)) \o XmlOfAll(F, Tail(cs))

\* " name='value'" for each attribute node of as, one after the other
RECURSIVE AttrText(_, _)
AttrText(F, as) ==
    IF as = <<>> THEN ""
    ELSE " " \o QNameToString(Unwrap(Rec(F, Head(as)).name)) \o "='"
             \o Unwrap(Rec(F, Head(as)).v) \o "'" \o AttrText(F, Tail(as))

\* C22: to_xml of an element with name N and children c1..ck is "<N",
\* then " name='value'" for each of its attributes (in some order; nothing
\* without attributes), then ">", then to_xml(c1) ... to_xml(ck) in children
\* order, then "</N>" (so <N></N> without children); a text node gives its
\* value, a comment <!--value-->, a processing instruction <?name value?>.
C22_ToXmlFormat ==
    \A n \in Handles(forest) :
        LET nc == Rec(forest, n)
        IN  CASE nc.t = "Element" ->
                    \E ks \in Orders(DOMAIN nc.attributes) :
                        to_xml(forest, n) =
                            "<" \o QNameToString(Unwrap(nc.name))
                                \o AttrText(forest, [i \in DOMAIN ks |-> nc.attributes[ks[i]]])
                                \o ">" \o XmlOfAll(forest, nc.children)
                                \o "</" \o QNameToString(Unwrap(nc.name)) \o ">"
              [] nc.t = "Text" -> to_xml(forest, n) = Unwrap(nc.v)
              [] nc.t = "Comment" -> to_xml(forest, n) = "<!--" \o Unwrap(nc.v) \o "-->"
              [] nc.t = "ProcessingInstruction" ->
                    to_xml(forest, n) =
                        "<?" \o QNameToString(Unwrap(nc.name)) \o " " \o Unwrap(nc.v) \o "?>"
              [] OTHER -> TRUE

C22_Witness ==
    \E e \in Handles(forest) :
        /\ Rec(forest, e).t = "Element"
        /\ Len(Children(forest, e)) = 2
        /\ to_xml(forest, e) = "<a>x<!--x--></a>"

\* s with every '&', '<' and '>' in escaped form
RECURSIVE Escaped(_)
Escaped(s) ==
    IF s = "" THEN ""
    ELSE LET c == SubSeq(s, 1, 1)
         IN  (CASE c = "&" -> "&amp;"
                [] c = "<" -> "&lt;"
                [] c = ">" -> "&gt;"
                [] OTHER -> c) \o Escaped(SubSeq(s, 2, Len(s)))

\* C23: to_xml writes every '&', '<' and '>' of a text node's value and of
\* an attribute's value in escaped form: a text node serializes as its
\* escaped value, and an element without children and with one attribute
\* as its start tag with the escaped value between the quotes, and its end
\* tag.
C23_ToXmlEscapes ==
    \A n \in Handles(forest) :
        LET nc == Rec(forest, n)
        IN  /\ nc.t = "Text" => to_xml(forest, n) = Escaped(Unwrap(nc.v))
            /\ (/\ nc.t = "Element"
                /\ nc.children = <<>>
                /\ Cardinality(DOMAIN nc.attributes) = 1)
               => \A q \in DOMAIN nc.attributes :
                     to_xml(forest, n) =
                         "<" \o QNameToString(Unwrap(nc.name)) \o " " \o QNameToString(q)
                             \o "='" \o Escaped(Unwrap(Rec(forest, nc.attributes[q]).v))
                             \o "'></" \o QNameToString(Unwrap(nc.name)) \o ">"

(***************************************************************************)
(* Properties of ingestion.                                                *)
(***************************************************************************)
\* C25: whenever grow_tree returns an error (the tokenizer fails, the
\* document has no top-level node, or making some node fails), the forest
\* is the forest before the call: no tree has been added to it.
C25_FailedGrowTreeLeavesForest ==
    [][(last'.op = "grow_tree" /\ last'.res = "Err") => forest' = forest]_vars

\* the members of the sequence s
Range(s) == { s[k] : k \in 1 .. Len(s) }

\* the prefixes the element and attribute names of the content c use (xmlns
\* apart), and the prefixes its xmlns declarations declare
RECURSIVE PrefixesUsed(_)
PrefixesUsed(c) ==
    IF c = <<>> THEN {}
    ELSE (IF Head(c).kind # "Element" THEN {}
          ELSE { Unwrap(get_prefix(q)) :
                    q \in { q \in {Head(c).m} \cup { b.qn : b \in Range(Head(c).a) } :
                               get_prefix(q) \notin {None, Some("xmlns")} } }
                \cup PrefixesUsed(Head(c).c))
         \cup PrefixesUsed(Tail(c))

RECURSIVE PrefixesDeclared(_)
PrefixesDeclared(c) ==
    IF c = <<>> THEN {}
    ELSE (IF Head(c).kind # "Element" THEN {}
          ELSE { get_localname(b.qn) : b \in { b \in Range(Head(c).a) : IsDeclaration(b) } }
                \cup PrefixesDeclared(Head(c).c))
         \cup PrefixesDeclared(Tail(c))

\* C26: grow_tree of a document in which an element name or an attribute
\* name uses a prefix that no xmlns declaration declares returns an error:
\* it does not abort the process, it does not return Ok, and no node gets a
\* namespace URI put in place of the missing one.
C26_UndeclaredPrefixIsErr ==
    last.op = "grow_tree" =>
        /\ last.res # "Panic"
        /\ last.res = "Ok" =>
              /\ PrefixesUsed(Unwrap(last.self).content)
                    \subseteq PrefixesDeclared(Unwrap(last.self).content)
              /\ \A h \in Handles(forest) :
                    Rec(forest, h).name # None => Unwrap(Rec(forest, h).name).nsuri # Some("")

\* the record of h has the prefix and the local name of the parsed name m
Named(F, h, m) ==
    /\ Rec(F, h).name # None
    /\ get_prefix(Unwrap(Rec(F, h).name)) = get_prefix(m)
    /\ get_localname(Unwrap(Rec(F, h).name)) = get_localname(m)

\* the node h of F is the parsed node n converted: its type, name and value;
\* for an element its children in input order, each with the element as
\* parent, and each attribute that is no declaration in its attribute map
RECURSIVE Converted(_, _, _)
Converted(F, h, n) ==
    CASE n.kind = "Element" ->
            /\ Rec(F, h).t = "Element"
            /\ Named(F, h, n.m)
            /\ Len(Rec(F, h).children) = Len(n.c)
            /\ \A k \in 1 .. Len(n.c) :
                  /\ Rec(F, Rec(F, h).children[k]).parent = Some(h)
                  /\ Converted(F, Rec(F, h).children[k], n.c[k])
            /\ \A b \in Range(n.a) :
                  ~IsDeclaration(b) =>
                      \E q \in DOMAIN Rec(F, h).attributes :
                          /\ Rec(F, Rec(F, h).attributes[q]).t = "Attribute"
                          /\ Named(F, Rec(F, h).attributes[q], b.qn)
                          /\ Rec(F, Rec(F, h).attributes[q]).v = Some(b.v)
      [] n.kind = "Text" -> Rec(F, h).t = "Text" /\ Rec(F, h).v = Some(n.v)
      [] n.kind = "Comment" -> Rec(F, h).t = "Comment" /\ Rec(F, h).v = Some(n.v)
      [] n.kind = "PI" ->
            /\ Rec(F, h).t = "ProcessingInstruction"
            /\ Rec(F, h).v = Some(n.v)
            /\ Rec(F, h).name = Some(QualifiedName(None, None, n.m))
      [] OTHER -> FALSE

\* no element of the content c carries two attributes of one prefix and
\* local name
RECURSIVE AttributesDistinct(_)
AttributesDistinct(c) ==
    \A k \in 1 .. Len(c) :
        c[k].kind = "Element" =>
            /\ \A i, j \in 1 .. Len(c[k].a) : c[k].a[i].qn = c[k].a[j].qn => i = j
            /\ AttributesDistinct(c[k].c)

\* C28: a grow_tree that returns Ok has added exactly one tree, the trees
\* before it unchanged; the children of the new tree's document node are the
\* top-level nodes of the document converted, in input order; the children
\* of every element are its content converted, in input order, with the
\* element as parent; every attribute whose prefix is not xmlns is in the
\* attribute map of its element, and no attribute node has the prefix xmlns.
\* (Documents in which no element repeats an attribute name.)
C28_GrowTreeBuildsTheDocument ==
    [][(/\ last'.op = "grow_tree"
        /\ last'.res = "Ok"
        /\ AttributesDistinct(Unwrap(last'.self).content))
       => /\ Len(forest') = Len(forest) + 1
          /\ SubSeq(forest', 1, Len(forest)) = forest
          /\ last'.arg = Some(Len(forest))
          /\ LET doc == get_doc_node(At(forest', Len(forest)))
                 c == Unwrap(last'.self).content
             IN  /\ Len(Rec(forest', doc).children) = Len(c)
                 /\ \A k \in 1 .. Len(c) : Converted(forest', Rec(forest', doc).children[k], c[k])
          /\ \A h \in Handles(forest') :
                Rec(forest', h).t = "Attribute" =>
                    get_prefix(Unwrap(Rec(forest', h).name)) # Some("xmlns")]_vars

\* the elements of the content c in document order
RECURSIVE ElementsOf(_)
ElementsOf(c) ==
    IF c = <<>> THEN <<>>
    ELSE (IF Head(c).kind = "Element" THEN <<Head(c)>> \o ElementsOf(Head(c).c) ELSE <<>>)
         \o ElementsOf(Tail(c))

\* the xmlns declarations of the first i elements of es, in document order
RECURSIVE DeclarationsUpTo(_, _)
DeclarationsUpTo(es, i) ==
    IF i = 0 THEN <<>>
    ELSE DeclarationsUpTo(es, i - 1) \o SelectSeq(es[i].a, IsDeclaration)

\* the URI of the last declaration of the prefix p in ds, None without one
InForce(ds, p) ==
    LET ks == { k \in 1 .. Len(ds) : get_localname(ds[k].qn) = p }
    IN  IF ks = {} THEN None
        ELSE Some(ds[CHOOSE k \in ks : \A j \in ks : j <= k].v)

\* C30: during one ingestion a declaration stays in force from the element
\* that carries it onwards.  After a grow_tree that returned Ok, the i-th
\* element of the new tree in document order, if its name has a prefix, has
\* the URI of the last declaration of that prefix on the elements 1 .. i of
\* the document, wherever those elements are: the element itself, an
\* ancestor, or an element that ended before the i-th began.
C30_DeclarationsStayInForce ==
    (last.op = "grow_tree" /\ last.res = "Ok") =>
        LET es == ElementsOf(Unwrap(last.self).content)
            doc == get_doc_node(At(forest, Unwrap(last.arg)))
            made == SelectSeq(ProperDescendants(forest, doc),
                              LAMBDA h : Rec(forest, h).t = "Element")
        IN  /\ Len(made) = Len(es)
            /\ \A i \in 1 .. Len(es) :
                  /\ Named(forest, made[i], es[i].m)
                  /\ get_prefix(es[i].m) # None =>
                        /\ Unwrap(Rec(forest, made[i]).name).nsuri # None
                        /\ Unwrap(Rec(forest, made[i]).name).nsuri
                             = InForce(DeclarationsUpTo(es, i), Unwrap(get_prefix(es[i].m)))

\* "<a xmlns:p='u'><a xmlns:p='w'/><p:a/></a>" has been ingested: the third
\* element, a later sibling of the one that declared p again, has the URI w
C30_Witness ==
    /\ last.op = "grow_tree"
    /\ last.res = "Ok"
    /\ Unwrap(last.self).content =
          <<XMLElement(QualifiedName(None, None, "a"),
                       <<XMLAttribute(QualifiedName(None, Some("xmlns"), "p"), "u")>>,
                       <<XMLElement(QualifiedName(None, None, "a"),
                                    <<XMLAttribute(QualifiedName(None, Some("xmlns"), "p"), "w")>>,
                                    <<>>),
                         XMLElement(QualifiedName(None, Some("p"), "a"), <<>>, <<>>)>>)>>
    /\ Rec(forest, Node(3, Unwrap(last.arg))).name
          = Some(QualifiedName(Some("w"), Some("p"), "a"))

\* the element e and everything below it are elements without attributes
\* and text nodes
ElementsAndText(F, e) ==
    \A h \in Under(F, e) :
        /\ Rec(F, h).t \in {"Element", "Text"}
        /\ DOMAIN Rec(F, h).attributes = {}

\* C29: for every element e that push_doc_node has made a child of its
\* document node, e and its descendants being elements and text nodes, and
\* x = to_xml(e): grow_tree(x) returns Ok, and to_xml of the first child of
\* the new tree's document node is x.
C29_RoundTrip ==
    \A e \in Handles(forest) :
        (/\ Rec(forest, e).t = "Element"
         /\ e \in Kids(forest, get_doc_node(At(forest, e[2])))
         /\ ElementsAndText(forest, e))
        => LET x == to_xml(forest, e)
               g == GrowTree(forest, Parse(x))
           IN  /\ g.res = "Ok"
               /\ to_xml(g.F, Head(Rec(g.F, get_doc_node(At(g.F, Unwrap(g.ti)))).children)) = x

(***************************************************************************)
(* Properties of the forest as a whole.                                    *)
(***************************************************************************)
\* following the parent links from n ends at a node without parent in at
\* most k steps
RECURSIVE ReachesRoot(_, _, _)
ReachesRoot(F, n, k) ==
    \/ Rec(F, n).parent = None
    \/ /\ k > 0
       /\ Unwrap(Rec(F, n).parent) \in Handles(F)
       /\ ReachesRoot(F, Unwrap(Rec(F, n).parent), k - 1)

\* C31: in every forest the calls produce, the parent links of every node
\* lead to a node without parent, and no node is among the children of
\* itself or of one of its descendants.
C31_ParentAcyclic ==
    \A n \in Handles(forest) :
        /\ ReachesRoot(forest, n, Cardinality(Handles(forest)))
        /\ \A d \in Under(forest, n) : n \notin Kids(forest, d)

\* C32: a call of append_child or add_attribute that returns Err leaves the
\* forest as it was: no parent field, children sequence or attribute map
\* has changed.
C32_ErrLeavesForest ==
    [][(last'.op \in {"append_child", "add_attribute"} /\ last'.res = "Err")
       => forest' = forest]_vars

\* append_child has returned "unable to find node" for a child of another
\* tree, after both type checks passed
C32_Witness ==
    /\ last.op = "append_child"
    /\ last.res = "Err"
    /\ Unwrap(last.err).message = "unable to find node"

\* C33: an append_child(p, c) that returns Ok changes the parent field of
\* c's own record and the children sequence of p's record and nothing else:
\* no tree is added, every other field of every record of every tree is as
\* before, also in p's tree when c is a node of another tree.
C33_AppendChildFrame ==
    [][(last'.op = "append_child" /\ last'.res = "Ok")
       => /\ Handles(forest') = Handles(forest)
          /\ \A h \in Handles(forest) :
                /\ Rec(forest', h).t = Rec(forest, h).t
                /\ Rec(forest', h).name = Rec(forest, h).name
                /\ Rec(forest', h).v = Rec(forest, h).v
                /\ Rec(forest', h).attributes = Rec(forest, h).attributes
                /\ h # Unwrap(last'.arg) => Rec(forest', h).parent = Rec(forest, h).parent
                /\ h # Unwrap(last'.self) => Rec(forest', h).children = Rec(forest, h).children]_vars

\* the calls of to_xml below n nest deeper than depth
RECURSIVE Nests(_, _, _)
Nests(F, n, depth) ==
    \/ depth = 0
    \/ /\ n \in Handles(F)
       /\ Rec(F, n).t = "Element"
       /\ \E c \in Kids(F, n) : Nests(F, c, depth - 1)

\* C34: on every forest the calls produce, an Ancestors or a Descendants
\* iterator that has been asked more often than the forest has nodes and
\* attachments has returned None, and to_xml of every node returns: its
\* calls nest no deeper than the forest has nodes.
C34_TraversalsEnd ==
    /\ (/\ iter # None
        /\ Unwrap(iter).kind \in {"Ancestors", "Descendants"}
        /\ Len(Unwrap(iter).out) > Cardinality(Handles(forest)) + Edges(forest))
       => \E k \in 1 .. Len(Unwrap(iter).out) : Unwrap(iter).out[k] = None
    /\ \A n \in Handles(forest) : ~Nests(forest, n, Cardinality(Handles(forest)) + 1)

(***************************************************************************)
(* Properties of a cursor over a forest that changes.                      *)
(***************************************************************************)
\* what the next k calls of next on the Children cursor it return, the
\* forest F left alone
RECURSIVE Drain(_, _, _)
Drain(F, it, k) ==
    IF k = 0 THEN <<>>
    ELSE <<At(ChildrenNext(F, it).out, Len(it.out))>> \o Drain(F, ChildrenNext(F, it), k - 1)

\* s as a sequence of results, followed by one None
ThenNone(s) == [k \in 1 .. Len(s) + 1 |-> IF k <= Len(s) THEN Some(s[k]) ELSE None]

\* C35: a Children cursor keeps a position and reads the parent's children
\* as they are at each call.  When a child the cursor has already returned
\* is removed while a child is still to come, the calls that follow return
\* the children that were to come without the first of them, then None:
\* exactly one child is skipped.  When a child is appended to a parent whose
\* cursor has returned every child and then None, the next call returns the
\* new child.
C35_CursorReadsCurrentChildren ==
    [][(iter # None /\ iter' = iter /\ last'.res = "Ok")
       => LET it == Unwrap(iter)
              old == Rec(forest, it.of).children
          IN  /\ (/\ last'.op = "remove"
                  /\ Rec(forest, Unwrap(last'.self)).parent = Some(it.of)
                  /\ it.cur < Len(old)
                  /\ \E k \in 1 .. it.cur : old[k] = Unwrap(last'.self))
                 => Drain(forest', it, Len(old) - it.cur)
                      = ThenNone(SubSeq(old, it.cur + 2, Len(old)))
              /\ (/\ last'.op = "append_child"
                  /\ Unwrap(last'.self) = it.of
                  /\ it.out # <<>>
                  /\ At(it.out, Len(it.out) - 1) = None
                  /\ it.cur = Len(old))
                 => Drain(forest', it, 2) = ThenNone(<<Unwrap(last'.arg)>>)]_vars

\* a cursor over three children has returned the first, the first has been
\* removed, and the cursor has then returned the third and None: the second
\* is still a child and was never returned
C35_Witness ==
    /\ iter # None
    /\ Unwrap(iter).kind = "Children"
    /\ Len(Unwrap(iter).out) = 3
    /\ Len(Rec(forest, Unwrap(iter).of).children) = 2
    /\ Unwrap(iter).out[1] # None
    /\ Rec(forest, Unwrap(Unwrap(iter).out[1])).parent = None
    /\ Unwrap(iter).out[2] = Some(Rec(forest, Unwrap(iter).of).children[2])
    /\ Unwrap(iter).out[3] = None
    /\ last.op = "next"

\* the forest after n.remove() has returned Ok
Removed(F, n) == RemoveClearParent(RemoveFromParent(F, n), n)

\* C36: for a node n that is the last child of an element p and occurs once
\* in p's children, remove(n) returns Ok, the append_child(p, n) that
\* follows returns Ok, and the forest is then the forest before the two
\* calls.
C36_RemoveAppendRestores ==
    \A p \in Handles(forest), n \in Handles(forest) :
        (/\ Rec(forest, p).t = "Element"
         /\ Children(forest, p) # <<>>
         /\ Children(forest, p)[Len(Children(forest, p))] = n
         /\ Count(Children(forest, p), n) = 1)
        => /\ ~RemovePanics(forest, n)
           /\ AppendChildErr(Removed(forest, n), p, n) = None
           /\ AppendChildPush(AppendChildParent(Removed(forest, n), p, n), p, n) = forest


(***************************************************************************)
(* The graph-backed tree (src/xdmgraph.rs).  An XDMTree is a petgraph      *)
(* StableGraph: graph.n is the node weights by NodeIndex (0-based, read    *)
(* with At), graph.e the edges, each with its source s, its target t and   *)
(* its weight w (the EdgeType, with the name an Attribute edge carries).   *)
(* An XDMTreeNode of the one graph is its NodeIndex.  Removing a node      *)
(* leaves its slot vacant and takes every edge at the node with it; the    *)
(* model hands out a new slot to every new node, where the library takes   *)
(* a vacant one again, which renames nodes and changes no edge.  No        *)
(* specification below adds an edge that is already there, so the set of   *)
(* edges stands for the library's edge list.                               *)
(***************************************************************************)
NodeType(t, name, v) == [t |-> t, name |-> name, v |-> v]

Vacant == NodeType("Vacant", None, None)

EdgeType(k, qn) == [k |-> k, qn |-> qn]

GEdge(s, t, w) == [s |-> s, t |-> t, w |-> w]

add_node(G, weight) == [G EXCEPT !.n = Append(@, weight)]

add_edge(G, s, t, w) == [G EXCEPT !.e = @ \cup {GEdge(s, t, w)}]

remove_edge(G, e) == [G EXCEPT !.e = @ \ {e}]

\* StableGraph::remove_node, not to be confused with XDMTreeNode::remove_node
GraphRemoveNode(G, n) ==
    [n |-> SetAt(G.n, n, Vacant), e |-> {e \in G.e : e.s # n /\ e.t # n}]

node_indices(G) == {i \in 0 .. (Len(G.n) - 1) : At(G.n, i) # Vacant}

\* edges_directed(n, Outgoing) filtered by the kind of the weight
Outgoing(G, n, k) == {e \in G.e : e.s = n /\ e.w.k = k}

\* the edge a for_each over some edges of one node leaves in its variable:
\* the one visited last, which is the oldest, the library listing the edges
\* of a node newest first
LastVisited(S) == CHOOSE e \in S : \A f \in S : e.t <= f.t

\* XDMTreeNode::new
XDMTreeNode_new(G) == add_node(G, NodeType("Document", None, None))

\* the index of the document node (the code panics when there is none; the
\* specifications create it first)
XDMTreeNode_get_doc_node(G) ==
    CHOOSE i \in node_indices(G) :
        /\ At(G.n, i).t = "Document"
        /\ \A j \in node_indices(G) : At(G.n, j).t = "Document" => i <= j

get_first_child(G, n) ==
    LET c1 == Outgoing(G, n, "FirstChild")
    IN  IF Cardinality(c1) = 1 THEN Some((CHOOSE e \in c1 : TRUE).t) ELSE None

\* Siblings::next
XDMSiblingsNext(G, n) ==
    LET v == Outgoing(G, n, "NextSibling")
    IN  IF Cardinality(v) = 1 THEN Some((CHOOSE e \in v : TRUE).t) ELSE None

\* PrecedingSiblings::next
XDMPrecedingSiblingsNext(G, n) ==
    LET v == Outgoing(G, n, "PrecedingSibling")
    IN  IF Cardinality(v) = 1 THEN Some((CHOOSE e \in v : TRUE).t) ELSE None

\* Ancestors::next
XDMAncestorsNext(G, n) ==
    LET v == Outgoing(G, n, "Parent")
    IN  IF Cardinality(v) = 1
        THEN LET m == (CHOOSE e \in v : TRUE).t
             IN  IF At(G.n, m).t = "Document" THEN None ELSE Some(m)
        ELSE None

\* sibling_iter().last(): k bounds the walk, which a ring of NextSibling
\* edges would never end
RECURSIVE LastSibling(_, _, _, _)
LastSibling(G, n, seen, k) ==
    LET m == XDMSiblingsNext(G, n)
    IN  IF m = None \/ k = 0 THEN seen ELSE LastSibling(G, Unwrap(m), m, k - 1)

get_last_sibling(G, n) == LastSibling(G, n, None, Len(G.n))

\* what a Children iterator yields until it returns None: first the first
\* child, then the next sibling of the node it yielded last
RECURSIVE XDMChildrenFrom(_, _, _)
XDMChildrenFrom(G, c, k) ==
    IF c = None \/ k = 0 THEN <<>>
    ELSE <<Unwrap(c)>> \o XDMChildrenFrom(G, XDMSiblingsNext(G, Unwrap(c)), k - 1)

XDMChildren(G, n) == XDMChildrenFrom(G, get_first_child(G, n), Len(G.n))

\* a new node linked to the document node
XDMNewNode(G, weight) ==
    add_edge(add_node(G, weight), Len(G.n), XDMTreeNode_get_doc_node(G),
             EdgeType("Document", None))

XDMTreeNode_new_element(G, name) == XDMNewNode(G, NodeType("Element", Some(name), None))

new_value(G, v) == XDMNewNode(G, NodeType("Text", None, Some(v)))

\* XDMTreeNode::append_child for a child of the same graph
XDMAppendChildLinks(G, self, child, fc) ==
    IF fc = None
    THEN add_edge(G, self, child, EdgeType("FirstChild", None))
    ELSE LET l == get_last_sibling(G, Unwrap(fc))
             d == IF l = None THEN Unwrap(fc) ELSE Unwrap(l)
         IN  add_edge(add_edge(G, d, child, EdgeType("NextSibling", None)),
                      child, d, EdgeType("PrecedingSibling", None))

\* an append that links the new child in front of the first child
XDMAppendChildInFront(G, self, child) ==
    LET fc == get_first_child(G, self)
        P == add_edge(G, child, self, EdgeType("Parent", None))
    IN  IF fc = None THEN add_edge(P, self, child, EdgeType("FirstChild", None))
        ELSE LET c == Unwrap(fc)
                 Q == remove_edge(P, GEdge(self, c, EdgeType("FirstChild", None)))
             IN  add_edge(add_edge(add_edge(Q, self, child, EdgeType("FirstChild", None)),
                                   child, c, EdgeType("NextSibling", None)),
                          c, child, EdgeType("PrecedingSibling", None))

XDMTreeNode_append_child(G, self, child) ==
    LET fc == get_first_child(G, self)
    IN  XDMAppendChildLinks(add_edge(G, child, self, EdgeType("Parent", None)),
                            self, child, fc)

XDMTreeNode_new_attribute(G, self, name, v) ==
    LET D == XDMNewNode(G, NodeType("Attribute", None, Some(v)))
    IN  add_edge(add_edge(D, self, Len(G.n), EdgeType("Attribute", name)),
                 Len(G.n), self, EdgeType("Parent", None))

\* the filter of get_attribute: both names in a namespace, the same one, or
\* both in none, and the same local name
XDMAttributeMatches(name, att) ==
    IF name.nsuri # None /\ att.nsuri # None
    THEN name.nsuri = att.nsuri /\ name.localname = att.localname
    ELSE IF name.nsuri = None /\ att.nsuri = None
    THEN name.localname = att.localname
    ELSE FALSE

XDMTreeNode_get_attribute(G, self, name) ==
    LET a == {e \in Outgoing(G, self, "Attribute") : XDMAttributeMatches(name, e.w.qn)}
    IN  IF Cardinality(a) = 1
        THEN LET i == (CHOOSE e \in a : TRUE).t
             IN  IF At(G.n, i).t = "Attribute" THEN At(G.n, i).v ELSE None
        ELSE None

\* remove_node, lines 270-284: of the attributes only the one the loop
\* visited last goes
RemoveAttribute(G, self) ==
    LET A == Outgoing(G, self, "Attribute")
    IN  IF A = {} THEN G ELSE GraphRemoveNode(G, LastVisited(A).t)

\* remove_node, lines 344-355 and 362-373: the FirstChild edge from the
\* parent to this node
RemoveFirstChildEdge(G, self, par) ==
    LET E == {e \in Outgoing(G, par, "FirstChild") : e.t = self}
    IN  IF E = {} THEN G ELSE remove_edge(G, LastVisited(E))

\* the edge of kind k that leaves n, if there is one
RemoveOutgoing(G, n, k) ==
    IF Outgoing(G, n, k) = {} THEN G ELSE remove_edge(G, LastVisited(Outgoing(G, n, k)))

\* a removal from the middle that joins the neighbours in one direction only
RemoveRelinkOneWay(G, self, par) ==
    LET P == Outgoing(G, self, "PrecedingSibling")
        N == Outgoing(G, self, "NextSibling")
    IN  IF P # {} /\ N # {}
        THEN add_edge(remove_edge(remove_edge(G, LastVisited(P)), LastVisited(N)),
                      LastVisited(P).t, LastVisited(N).t, EdgeType("NextSibling", None))
        ELSE IF P # {}
        THEN RemoveOutgoing(remove_edge(G, LastVisited(P)), LastVisited(P).t, "NextSibling")
        ELSE IF N # {}
        THEN add_edge(RemoveFirstChildEdge(
                          RemoveOutgoing(remove_edge(G, LastVisited(N)),
                                         LastVisited(N).t, "PrecedingSibling"),
                          self, par),
                      par, LastVisited(N).t, EdgeType("FirstChild", None))
        ELSE RemoveFirstChildEdge(G, self, par)

\* remove_node, lines 290-375: remove and repoint siblings
RemoveRelink(G, self, par) ==
    LET P == Outgoing(G, self, "PrecedingSibling")
        N == Outgoing(G, self, "NextSibling")
    IN  IF P # {} /\ N # {}
        THEN LET pre == LastVisited(P).t
                 next == LastVisited(N).t
                 H == remove_edge(remove_edge(G, LastVisited(P)), LastVisited(N))
             IN  add_edge(add_edge(H, pre, next, EdgeType("NextSibling", None)),
                          next, pre, EdgeType("PrecedingSibling", None))
        ELSE IF P # {}
        THEN RemoveOutgoing(remove_edge(G, LastVisited(P)), LastVisited(P).t, "NextSibling")
        ELSE IF N # {}
        THEN add_edge(RemoveFirstChildEdge(
                          RemoveOutgoing(remove_edge(G, LastVisited(N)),
                                         LastVisited(N).t, "PrecedingSibling"),
                          self, par),
                      par, LastVisited(N).t, EdgeType("FirstChild", None))
        ELSE RemoveFirstChildEdge(G, self, par)

\* XDMTreeNode::remove_node.  The result is None when the call panics (the
\* unwrap of line 268) and the graph it leaves otherwise.  RemoveChildren is
\* the loop of lines 287-288: node is the child the iterator yielded last,
\* and a child that is removed has no NextSibling edge to go on with.
RECURSIVE remove_node(_, _)
RECURSIVE RemoveChildren(_, _, _)
RemoveChildren(G, self, node) ==
    LET c == IF node = None THEN get_first_child(G, self)
             ELSE XDMSiblingsNext(G, Unwrap(node))
    IN  IF c = None THEN Some(G)
        ELSE LET R == remove_node(G, Unwrap(c))
             IN  IF R = None THEN None ELSE RemoveChildren(Unwrap(R), self, c)

remove_node(G, self) ==
    LET par == XDMAncestorsNext(G, self)
    IN  IF par = None THEN None
        ELSE LET R == RemoveChildren(RemoveAttribute(G, self), self, None)
             IN  IF R = None THEN None
                 ELSE Some(GraphRemoveNode(RemoveRelink(Unwrap(R), self, Unwrap(par)),
                                           self))

\* XDMTreeNode::to_xml_int.  A name with a namespace and no prefix stops the
\* process at the unwrap of line 417.
UnwrapOnNone == "!unwrap on None!"

RECURSIVE XDMAttributesXml(_, _)
XDMAttributesXml(G, A) ==
    IF A = {} THEN ""
    ELSE LET e == CHOOSE x \in A : \A y \in A : x.t >= y.t
         IN  " " \o QNameToString(e.w.qn) \o "='"
                 \o (IF At(G.n, e.t).t = "Attribute" THEN Unwrap(At(G.n, e.t).v) ELSE "")
                 \o "'" \o XDMAttributesXml(G, A \ {e})

RECURSIVE ToXmlInt(_, _, _)
RECURSIVE XDMChildrenXml(_, _, _)
XDMChildrenXml(G, cs, depth) ==
    IF cs = <<>> THEN ""
    ELSE ToXmlInt(G, Head(cs), depth) \o XDMChildrenXml(G, Tail(cs), depth)

ToXmlInt(G, n, depth) ==
    IF depth = 0 THEN StackOverflow
    ELSE LET w == At(G.n, n)
         IN  CASE w.t = "Element" ->
                    LET name == Unwrap(w.name)
                        tag == QNameToString(name)
                    IN  IF name.nsuri # None /\ name.prefix = None THEN UnwrapOnNone
                        ELSE "<" \o tag
                             \o (IF name.nsuri = None THEN ""
                                 ELSE " xmlns:" \o Unwrap(name.prefix) \o "='"
                                          \o Unwrap(name.nsuri) \o "'")
                             \o XDMAttributesXml(G, Outgoing(G, n, "Attribute"))
                             \o ">" \o XDMChildrenXml(G, XDMChildren(G, n), depth - 1)
                             \o "</" \o tag \o ">"
               [] w.t = "Text" -> Unwrap(w.v)
               [] w.t = "Document" ->
                    IF get_first_child(G, n) = None THEN ""
                    ELSE ToXmlInt(G, Unwrap(get_first_child(G, n)), depth - 1)
               [] OTHER -> ""

to_xml_int(G, n) == ToXmlInt(G, n, Len(G.n) + 1)


(***************************************************************************)
(* SpecGraph: the calls that build and prune the graph-backed tree.  A     *)
(* node is appended when it is no child yet, and never below itself.       *)
(***************************************************************************)
\* attribute names: two spellings of one name in a namespace, and a name in
\* no namespace
AttNames == {QualifiedName(None, None, "a"),
             QualifiedName(Some("u"), Some("p"), "a"),
             QualifiedName(Some("u"), Some("q"), "a")}

\* the nodes with a Parent edge to n that are no attributes
XDMKids(G, n) ==
    {e.s : e \in {x \in G.e : x.t = n /\ x.w.k = "Parent" /\ At(G.n, x.s).t # "Attribute"}}

\* the children and the attributes of n
XDMOwned(G, n) == {e.s : e \in {x \in G.e : x.t = n /\ x.w.k = "Parent"}}

RECURSIVE XDMClosure(_, _, _)
XDMClosure(G, S, k) ==
    IF k = 0 THEN S ELSE XDMClosure(G, S \cup UNION {XDMOwned(G, x) : x \in S}, k - 1)

XDMUnder(G, n) == XDMClosure(G, {n}, Len(G.n))

\* an element or text that is no child and has no sibling
XDMFresh(G, c) ==
    /\ At(G.n, c).t \in {"Element", "Text"}
    /\ Outgoing(G, c, "Parent") = {}
    /\ Outgoing(G, c, "NextSibling") = {}
    /\ Outgoing(G, c, "PrecedingSibling") = {}

GraphNew ==
    /\ Running
    /\ graph.n = <<>>
    /\ graph' = XDMTreeNode_new(graph)
    /\ last' = Ok("XDMTreeNode::new", None, Some(0))
    /\ UNCHANGED <<forest, iter>>

GraphCreate ==
    /\ Running
    /\ graph.n # <<>>
    /\ Len(graph.n) < GraphNodes
    /\ \E q \in NavNames :
        /\ graph' = XDMTreeNode_new_element(graph, q)
        /\ last' = Ok("XDMTreeNode::new_element", None, Some(Len(graph.n)))
    /\ UNCHANGED <<forest, iter>>

GraphText ==
    /\ Running
    /\ graph.n # <<>>
    /\ Len(graph.n) < GraphNodes
    /\ \E v \in Values :
        /\ graph' = new_value(graph, v)
        /\ last' = Ok("new_value", None, Some(Len(graph.n)))
    /\ UNCHANGED <<forest, iter>>

GraphAppend ==
    /\ Running
    /\ \E p \in node_indices(graph), c \in node_indices(graph) :
        /\ XDMFresh(graph, c)
        /\ p \notin XDMUnder(graph, c)
        /\ graph' = XDMTreeNode_append_child(graph, p, c)
        /\ last' = Ok("XDMTreeNode::append_child", Some(p), Some(c))
    /\ UNCHANGED <<forest, iter>>

GraphAttribute ==
    /\ Running
    /\ Len(graph.n) < GraphNodes
    /\ \E e \in node_indices(graph), q \in AttNames, v \in Values :
        /\ At(graph.n, e).t = "Element"
        /\ graph' = XDMTreeNode_new_attribute(graph, e, q, v)
        /\ last' = Ok("XDMTreeNode::new_attribute", Some(e), Some(<<q, v>>))
    /\ UNCHANGED <<forest, iter>>

\* the unwrap of line 268 comes before every write; the argument recorded
\* is the parent the call found
GraphRemove ==
    /\ Running
    /\ \E n \in node_indices(graph) :
        LET R == remove_node(graph, n)
        IN  IF R = None
            THEN last' = Panic("remove_node") /\ UNCHANGED graph
            ELSE /\ last' = Ok("remove_node", Some(n), XDMAncestorsNext(graph, n))
                 /\ graph' = Unwrap(R)
    /\ UNCHANGED <<forest, iter>>

NextGraph == GraphNew \/ GraphCreate \/ GraphAppend \/ GraphRemove

SpecGraph == Init /\ [][NextGraph]_vars

\* SpecAttr: the same calls, new_value and new_attribute
NextAttr ==
    GraphNew \/ GraphCreate \/ GraphText \/ GraphAppend \/ GraphAttribute \/ GraphRemove

SpecAttr == Init /\ [][NextAttr]_vars

\* the elements with one Parent edge: the attached elements
XDMAttached(G) ==
    {n \in node_indices(G) :
        At(G.n, n).t = "Element" /\ Cardinality(Outgoing(G, n, "Parent")) = 1}

XDMParentOf(G, n) == (CHOOSE e \in Outgoing(G, n, "Parent") : TRUE).t

\* C37: remove_node(n) completes for every attached element n, a child of
\* the document node included, and afterwards the children of n's former
\* parent are its former children without n, in their order.
C37_RemoveNodeCompletes ==
    \A n \in XDMAttached(graph) :
        LET R == remove_node(graph, n)
            p == XDMParentOf(graph, n)
        IN  /\ R # None
            /\ XDMChildren(Unwrap(R), p) = Without(XDMChildren(graph, p), n)

\* the same for the elements whose parent is not the document node
C37_BelowAnElement ==
    \A n \in XDMAttached(graph) :
        LET R == remove_node(graph, n)
            p == XDMParentOf(graph, n)
        IN  At(graph.n, p).t # "Document"
            => /\ R # None
               /\ XDMChildren(Unwrap(R), p) = Without(XDMChildren(graph, p), n)


\* C38: after new_attribute(e, q, v), get_attribute(e, q) returns v, for
\* every spelling of q with the same namespace URI and local name, also when
\* an attribute of that name was added to e before.
C38_NewAttributeThenGet ==
    [][last'.op = "XDMTreeNode::new_attribute"
       => LET e == Unwrap(last'.self)
              q == Unwrap(last'.arg)[1]
              v == Unwrap(last'.arg)[2]
          IN  \A name \in AttNames :
                QNameEq(name, q) => XDMTreeNode_get_attribute(graph', e, name) = Some(v)]_vars

\* the same for an element that had no attribute of that name
C38_FirstOfItsName ==
    [][last'.op = "XDMTreeNode::new_attribute"
       => LET e == Unwrap(last'.self)
              q == Unwrap(last'.arg)[1]
              v == Unwrap(last'.arg)[2]
          IN  (\A a \in Outgoing(graph, e, "Attribute") : ~QNameEq(a.w.qn, q))
              => \A name \in AttNames :
                    QNameEq(name, q)
                    => XDMTreeNode_get_attribute(graph', e, name) = Some(v)]_vars


\* C39: in every graph that append_child of nodes that are no children yet
\* and remove_node produce, every node has at most one outgoing NextSibling
\* edge and at most one outgoing PrecedingSibling edge, a has a NextSibling
\* edge to b exactly when b has a PrecedingSibling edge to a, and a node has
\* one outgoing FirstChild edge when it has children and none when it has
\* none.
C39_SiblingEdges ==
    /\ \A n \in node_indices(graph) :
        /\ Cardinality(Outgoing(graph, n, "NextSibling")) <= 1
        /\ Cardinality(Outgoing(graph, n, "PrecedingSibling")) <= 1
        /\ Cardinality(Outgoing(graph, n, "FirstChild"))
             = IF XDMKids(graph, n) = {} THEN 0 ELSE 1
    /\ \A a \in node_indices(graph), b \in node_indices(graph) :
        GEdge(a, b, EdgeType("NextSibling", None)) \in graph.e
        <=> GEdge(b, a, EdgeType("PrecedingSibling", None)) \in graph.e

\* remove_node took a child from a parent that still has two children,
\* neighbours now, made before and after the removed one
C39_Witness ==
    /\ last.op = "remove_node"
    /\ last.res = "Ok"
    /\ \E a \in node_indices(graph), b \in node_indices(graph) :
        /\ a < Unwrap(last.self)
        /\ Unwrap(last.self) < b
        /\ GEdge(a, b, EdgeType("NextSibling", None)) \in graph.e
        /\ XDMChildren(graph, Unwrap(last.arg)) = <<a, b>>


(***************************************************************************)
(* SpecPair: one tree of the forest and one graph, built by the same calls *)
(* in the same order, so that slot i of the tree's arena and node i of the *)
(* graph are the same node.  A node is appended when it is no child yet in *)
(* either, and never below itself; the child of the document node is set   *)
(* with push_doc_node in the forest and append_child in the graph.         *)
(***************************************************************************)
PairNew ==
    /\ Running
    /\ forest = <<>>
    /\ graph.n = <<>>
    /\ forest' = Append(forest, TreeNew(Len(forest)))
    /\ graph' = XDMTreeNode_new(graph)
    /\ last' = Ok("plant_tree", None, Some(Len(forest)))
    /\ UNCHANGED iter

PairElement ==
    /\ Running
    /\ graph.n # <<>>
    /\ Len(graph.n) < PairNodes
    /\ \E q \in NavNames :
        /\ forest' = Insert(forest, 0, NodeContent("Element", Some(q), None))
        /\ graph' = XDMTreeNode_new_element(graph, q)
        /\ last' = Ok("new_element", Some(0), Some(NewHandle(forest, 0)))
    /\ UNCHANGED iter

PairText ==
    /\ Running
    /\ graph.n # <<>>
    /\ Len(graph.n) < PairNodes
    /\ \E v \in Values :
        /\ forest' = Insert(forest, 0, NodeContent("Text", None, Some(v)))
        /\ graph' = new_value(graph, v)
        /\ last' = Ok("new_text", Some(0), Some(NewHandle(forest, 0)))
    /\ UNCHANGED iter

PairFresh(c) == XDMFresh(graph, c) /\ Detached(forest, Node(c, 0))

PairAppend ==
    /\ Running
    /\ \E p \in node_indices(graph) \ {0}, c \in node_indices(graph) \ {0} :
        /\ PairFresh(c)
        /\ p \notin XDMUnder(graph, c)
        /\ LET R == AppendChildOutcome(forest, Node(p, 0), Node(c, 0))
           IN  /\ forest' = R.F
               /\ last' = [op |-> "append_child", res |-> R.res, self |-> Some(Node(p, 0)),
                           arg |-> Some(Node(c, 0)), err |-> R.err]
        /\ graph' = XDMTreeNode_append_child(graph, p, c)
    /\ UNCHANGED iter

PairRoot ==
    /\ Running
    /\ \E c \in node_indices(graph) \ {0} :
        /\ PairFresh(c)
        /\ At(graph.n, c).t = "Element"
        /\ get_first_child(graph, 0) = None
        /\ forest' = PushDocNodeOutcome(forest, 0, Node(c, 0)).F
        /\ last' = Ok("push_doc_node", Some(0), Some(Node(c, 0)))
        /\ graph' = XDMTreeNode_append_child(graph, 0, c)
    /\ UNCHANGED iter

NextPair == PairNew \/ PairElement \/ PairText \/ PairAppend \/ PairRoot

SpecPair == Init /\ [][NextPair]_vars

\* C40: built by the same element and text creations and the same appends
\* of nodes that are no children yet, with names without a prefix and
\* without attributes, an element of the forest and the same element of the
\* graph serialize to the same string (to_xml and to_xml_int).
C40_SameSerialization ==
    \A i \in node_indices(graph) :
        At(graph.n, i).t = "Element"
        => to_xml(forest, Node(i, 0)) = to_xml_int(graph, i)

\* the root element, with an element and a text below it
C40_Witness ==
    /\ graph.n # <<>>
    /\ get_first_child(graph, 0) # None
    /\ LET r == Unwrap(get_first_child(graph, 0))
       IN  /\ At(At(forest, 0).a, 0).children = <<Node(r, 0)>>
           /\ to_xml_int(graph, r) = "<a><a></a>x</a>"
           /\ to_xml(forest, Node(r, 0)) = "<a><a></a>x</a>"

=============================================================================
